---------------------------- MODULE Spec2Model ----------------------------
(***************************************************************************)
(* A model of the plus-protocol core (rust-core): the UDP transport with   *)
(* its reliable-send bookkeeping and retransmission sweep (transport.rs),  *)
(* the route-dispatching server (server.rs) and the correlating client     *)
(* (client.rs).                                                            *)
(*                                                                         *)
(* Time is counted in periods of the retransmission interval (100 ms):     *)
(* one Tick is one period.  A pending entry stores its age in ticks (the   *)
(* value of now - sent_at), saturated just above ack_timeout, the only     *)
(* value it is ever compared with.  The packet timestamp is written once   *)
(* by the constructors and read by no operation of the core; the           *)
(* constructors write one fixed clock reading.                             *)
(***************************************************************************)
EXTENDS Integers, Sequences, FiniteSets, Bags, TLC

\* ------------------------------------------------------------------ bounds

\* Reliable sends (Client.send) an endpoint may start in the transport specs.
MaxSends == 2
\* The same where the server answers every send with a reliable reply.
MaxAnsweredSends == 1
\* Datagrams waiting in one socket before the environment stops adding more.
MaxInFlight == 1
\* The ack_timeout (in ticks) of the small configurations, and the larger of the
\* two values of max_retransmit they draw.
AckTimeoutTicks == 1
MaxRetransmitCfg == 1
\* Datagrams remote senders put on the server's socket.
MaxRemote == 2
\* Client.request calls in the end-to-end specs, and their timeout in ticks.
MaxRequests == 2
\* Client.request calls in the spec where the caller may drop them.
MaxCancellable == 1
RequestTimeoutTicks == 4
\* The transmission counter of the history saturates here.
CopiesCap == 4
\* Jobs enqueued, the max_retries and retry_delay (in ticks) of their
\* configurations, the ticks the job clock counts, and the get_job calls.
MaxJobs == 1
MaxJobRetries == 2
RetryDelayTicks == 1
MaxJobNow == 1
MaxLookups == 1
\* The ticks the clock of the packets' timestamps counts, where it runs.
MaxClock == 3

\* --------------------------------------------------------------- constants

PROTOCOL_VERSION == 1
DEFAULT_ACK_TIMEOUT_MS == 1000
MAX_RETRANSMIT_ATTEMPTS == 3
SWEEP_PERIOD_MS == 100
\* Client.connect polls for this long.
CONNECT_TIMEOUT_MS == 5000
ConnectTicks == CONNECT_TIMEOUT_MS \div SWEEP_PERIOD_MS
U16 == 65536
U8 == 256

Server == "srv"
Clients == {"c1", "c2"}
\* JobQueue::new(2) of test_job_queue.
WorkerCount == 2
Peer == "peer"
Endpoints == {Server} \cup Clients

Min(a, b) == IF a < b THEN a ELSE b

\* A u32 is written as its two 16-bit halves, <<high, low>>.
u32(n) == <<n \div U16, n % U16>>
U32_MAX == <<U16 - 1, U16 - 1>>

\* u32::wrapping_add(1)
saturating_add_1(x) ==
    IF x = U32_MAX THEN x
    ELSE IF x[2] + 1 < U16 THEN <<x[1], x[2] + 1>>
    ELSE <<x[1] + 1, 0>>
wrapping_add_1(x) ==
    IF x[2] + 1 < U16 THEN <<x[1], x[2] + 1>>
    ELSE <<(x[1] + 1) % U16, 0>>

\* tokio's Result: Ok(v) or Err(e).
Ok(v) == [ok |-> TRUE, val |-> v]
Err(e) == [ok |-> FALSE, err |-> e]

\* ------------------------------------------------------------------ packet

\* A usize byte count is written <<high, low>> with low < 2^16, as a u32 is,
\* but its high part may reach 2^16 and more: <<U16, 0>> is 2^32.
usize(n) == <<n \div U16, n % U16>>
usize_add(a, b) == <<a[1] + b[1] + ((a[2] + b[2]) \div U16), (a[2] + b[2]) % U16>>
usize_lt(a, b) == a[1] < b[1] \/ (a[1] = b[1] /\ a[2] < b[2])

\* `as u32` and `as u16` on a usize keep the low bits.
as_u32(n) == <<n[1] % U16, n[2]>>
as_u16(n) == n[2]

\* A u64 is written as its four 16-bit parts.
U64_MAX == <<U16 - 1, U16 - 1, U16 - 1, U16 - 1>>

\* Packet::current_timestamp: the clock's milliseconds since the epoch, here
\* 1 700 000 000 000.
current_timestamp == <<0, 395, 53221, 26624>>
\* The same `now` ticks of 100 ms later.
current_timestamp_at(now) ==
    <<current_timestamp[1], current_timestamp[2], current_timestamp[3],
      current_timestamp[4] + SWEEP_PERIOD_MS * now>>

\* A payload (Bytes) is a sequence of strings: <<text>> is a plain text, and each
\* transform puts its layer in front: <<"z">> \o p is p compressed, <<"e">> \o p
\* is p encrypted (nonce and tag abstracted).
Bytes_from(text) == <<text>>
Bytes_new == <<"">>

\* Strings that stand for long contents: a route of 65535 bytes, blocks of
\* 2^16 and of 2^32 bytes, one byte that is not UTF-8, a route of 65536 bytes,
\* and what is left of a byte string that was cut short.
LongRoute == "/<65535 bytes>"
TooLongRoute == "/<65536 bytes>"
Block64K == "<2^16 bytes>"
Block4G == "<2^32 bytes>"
BadUtf8 == "\\xFF"
Cut == "<cut>"

\* str::len and the length of one piece of a payload
str_len(s) ==
    CASE s = LongRoute -> usize(U16 - 1)
      [] s = TooLongRoute -> <<1, 0>>
      [] s = Block64K -> <<1, 0>>
      [] s = Block4G -> <<U16, 0>>
      [] s = BadUtf8 -> usize(1)
      [] OTHER -> usize(Len(s))

\* Bytes::len
RECURSIVE Bytes_len(_)
Bytes_len(bytes) ==
    IF bytes = <<>> THEN usize(0)
    ELSE usize_add(str_len(Head(bytes)), Bytes_len(Tail(bytes)))

\* Buf::copy_to_bytes(n) on a buffer that holds at least n bytes: all of it,
\* or a prefix.
copy_to_bytes(bytes, n) ==
    IF Bytes_len(bytes) = n THEN bytes
    ELSE IF n = usize(0) THEN Bytes_new
    ELSE <<Cut>> \o bytes

PacketTypes ==
    <<"Data", "Ack", "Nack", "Heartbeat", "Connect", "ConnectAck", "Disconnect", "Batch">>

\* PacketType as u8
TypeByte(ty) == CHOOSE b \in 0..7 : PacketTypes[b + 1] = ty

\* TryFrom<u8> for PacketType
PacketType_try_from(value) ==
    IF value \in 0..7 THEN Ok(PacketTypes[value + 1])
    ELSE Err("InvalidPacket")

PacketFlags_default == [encrypted |-> FALSE, compressed |-> FALSE, requires_ack |-> FALSE]

to_byte(flags) ==
    (IF flags.encrypted THEN 1 ELSE 0) + (IF flags.compressed THEN 2 ELSE 0)
        + (IF flags.requires_ack THEN 4 ELSE 0)

from_byte(byte) ==
    [encrypted |-> (byte % 2) = 1,
     compressed |-> ((byte \div 2) % 2) = 1,
     requires_ack |-> ((byte \div 4) % 2) = 1]

new_data(route, payload, sequence) ==
    [version |-> PROTOCOL_VERSION, packet_type |-> "Data",
     flags |-> [PacketFlags_default EXCEPT !.requires_ack = TRUE],
     sequence |-> sequence, timestamp |-> current_timestamp,
     route |-> route, payload |-> payload]

new_ack_requires_ack(sequence) ==
    [version |-> PROTOCOL_VERSION, packet_type |-> "Ack",
     flags |-> [PacketFlags_default EXCEPT !.requires_ack = TRUE],
     sequence |-> sequence, timestamp |-> current_timestamp,
     route |-> "", payload |-> Bytes_new]
new_ack(sequence) ==
    [version |-> PROTOCOL_VERSION, packet_type |-> "Ack", flags |-> PacketFlags_default,
     sequence |-> sequence, timestamp |-> current_timestamp,
     route |-> "", payload |-> Bytes_new]

new_heartbeat ==
    [version |-> PROTOCOL_VERSION, packet_type |-> "Heartbeat", flags |-> PacketFlags_default,
     sequence |-> u32(0), timestamp |-> current_timestamp,
     route |-> "", payload |-> Bytes_new]

new_connect ==
    [version |-> PROTOCOL_VERSION, packet_type |-> "Connect", flags |-> PacketFlags_default,
     sequence |-> u32(0), timestamp |-> current_timestamp,
     route |-> "", payload |-> Bytes_new]

\* The wire form of a packet, field by field: version byte, type byte, flags
\* byte, sequence, timestamp, route length (u16), route, payload length (u32),
\* payload.
serialize_u16_payload_len(p) ==
    <<p.version, TypeByte(p.packet_type), to_byte(p.flags), p.sequence, p.timestamp,
      as_u16(str_len(p.route)), p.route,
      <<0, as_u16(Bytes_len(p.payload))>>, p.payload>>
serialize(p) ==
    <<p.version, TypeByte(p.packet_type), to_byte(p.flags), p.sequence, p.timestamp,
      as_u16(str_len(p.route)), p.route,
      as_u32(Bytes_len(p.payload)), p.payload>>

\* A datagram shorter than the fixed header.
TooSmall == <<>>

\* A datagram that was cut short keeps the nine fields serialize wrote and
\* has a tenth: the number of bytes missing from its end.
missing(data) == IF Len(data) = 10 THEN data[10] ELSE usize(0)

\* usize subtraction, for a >= b
usize_sub(a, b) ==
    IF a[2] >= b[2] THEN <<a[1] - b[1], a[2] - b[2]>>
    ELSE <<a[1] - b[1] - 1, a[2] + U16 - b[2]>>

\* Buf::remaining at the start of deserialize: 21 bytes of fixed fields, the
\* route and the payload, less what was cut off.
remaining_uncut(data) ==
    IF data = TooSmall THEN usize(0)
    ELSE usize_add(usize(21), usize_add(str_len(data[7]), Bytes_len(data[9])))
remaining(data) ==
    IF data = TooSmall THEN usize(0)
    ELSE usize_sub(usize_add(usize(21), usize_add(str_len(data[7]), Bytes_len(data[9]))),
                   missing(data))

\* deserialize on a buffer of `left` bytes.  After the seventeen bytes up to
\* route_len, route_len bytes are the route and, after the four bytes of
\* payload_len, payload_len bytes are the payload.  When route_len is not the
\* length of the route that was written, the fields that follow are read out
\* of place.
deserialize_buf(data, left) ==
    IF usize_lt(left, usize(20)) THEN Err("InvalidPacket")
    ELSE IF data[1] # PROTOCOL_VERSION THEN Err("VersionMismatch")
    ELSE IF ~PacketType_try_from(data[2]).ok THEN Err("InvalidPacket")
    ELSE LET header == [version |-> data[1],
                        packet_type |-> PacketType_try_from(data[2]).val,
                        flags |-> from_byte(data[3]),
                        sequence |-> data[4], timestamp |-> data[5]]
             route_len == usize(data[6])
             after_route_len == usize_sub(left, usize(17))
         IN  IF usize_lt(after_route_len, route_len) THEN Err("InvalidPacket")
             ELSE IF str_len(data[7]) # route_len
                  THEN Ok(header @@ [route |-> Cut, payload |-> <<Cut>>])
             ELSE IF data[7] = BadUtf8 THEN Err("InvalidPacket")
             ELSE IF usize_lt(usize_sub(after_route_len, route_len), usize(4))
                  THEN Err("InvalidPacket")
             ELSE IF usize_lt(usize_sub(after_route_len, usize_add(route_len, usize(4))),
                              data[8])
                  THEN Err("InvalidPacket")
             ELSE Ok(header @@ [route |-> data[7],
                                payload |-> copy_to_bytes(data[9], data[8])])

\* The one element of a set of one.
Only(S) == CHOOSE x \in S : TRUE

deserialize(data) == Only({deserialize_buf(data, left) : left \in {remaining(data)}})

\* ------------------------------------------------- compression and crypto

compress(data) == Ok(<<"z">> \o data)

decompress(data) ==
    IF Len(data) >= 2 /\ data[1] = "z" THEN Ok(Tail(data))
    ELSE Err("Compression")

encrypt(data) == Ok(<<"e">> \o data)

decrypt(data) ==
    IF Len(data) >= 2 /\ data[1] = "e" THEN Ok(Tail(data))
    ELSE Err("Encryption")

\* ------------------------------------------------------------------- state

VARIABLES
    sequence,          \* Transport.sequence of each endpoint
    pending_acks,      \* Transport.pending_acks: sequence -> PendingPacket
    config,            \* Transport.config
    crypto,            \* Transport.crypto is Some
    compression,       \* Transport.compression is Some
    socket,            \* the datagrams queued at each endpoint's UDP socket
    retx,              \* the retransmission task of each transport
    tasks,             \* the handle_packet tasks spawned and not yet finished
    routes,            \* Server.routes: route -> handler
    pending_requests,  \* Client.pending_requests: sequence -> slot (its caller)
    request_timeout,   \* Client.request_timeout, in ticks
    recv_loop,         \* the loop of Server.listen or Client.start_recv_loop is running
    calls,             \* the Client.send and Client.request calls
    conn,              \* the Client.connect call of each client
    env,               \* the network, the build profile and the remaining budgets
    copies,            \* history: transmissions of each sequence by each transport
    handled,           \* history: what handle_ack, handle_nack and the sweep did
                       \* (renewed: what handle_nack changed since the last sweep;
                       \* replied: the requests whose reply was handled in time)
    replies,           \* history: the replies the server sent, with their requests
    codec,             \* a packet on its way through serialize and deserialize
    recv_log,          \* history: what each recv took, returned and transmitted
    queue              \* the JobQueue, its workers and the calls made on it

transportVars == <<sequence, pending_acks, config, crypto, compression, retx>>
serverVars == <<routes, replies>>
clientVars == <<pending_requests, request_timeout, recv_loop, calls, conn>>
vars == <<sequence, pending_acks, config, crypto, compression, socket, retx, tasks,
          routes, pending_requests, request_timeout, recv_loop, calls, conn, env,
          copies, handled, replies, recv_log, codec, queue>>

\* A map with no entries (HashMap::new()).
EmptyMap == <<>>
MapInsert(m, k, v) == (k :> v) @@ m
MapRemove(m, k) == [x \in DOMAIN m \ {k} |-> m[x]]

\* ----------------------------------------------------------------- network

Datagram(data, from) == [data |-> data, addr |-> from]

\* socket.send_to(data, dest) from `from`, when the network delivers it.
Deliver(sock, from, data, dest) ==
    IF dest \in DOMAIN sock
    THEN [sock EXCEPT ![dest] = @ (+) SetToBag({Datagram(data, from)})]
    ELSE sock

\* socket.recv_from takes datagram d out of t's socket.
Take(sock, t, d) == [sock EXCEPT ![t] = @ (-) SetToBag({d})]

\* What the network may do with a datagram for dest: deliver it (TRUE) or lose it.
Outcomes(dest) ==
    IF dest \notin DOMAIN socket \/ dest \in env.unreachable THEN {FALSE}
    ELSE IF env.lossy THEN {TRUE, FALSE}
    ELSE {TRUE}

\* The same for the first copy of a reliable packet.
FirstOutcomes(dest) == IF env.first_lost THEN {FALSE} ELSE Outcomes(dest)

\* --------------------------------------------------------------- transport

TransportConfig_default ==
    [ack_timeout |-> DEFAULT_ACK_TIMEOUT_MS \div SWEEP_PERIOD_MS,
     max_retransmit |-> MAX_RETRANSMIT_ATTEMPTS,
     enable_encryption |-> FALSE,
     enable_compression |-> FALSE]

PendingPacket(packet, dest) == [packet |-> packet, dest |-> dest, age |-> 0, attempts |-> 0]

\* next_sequence: the value the counter takes after handing out `current`.
next_sequence(current) == wrapping_add_1(current)

\* The packet send_reliable transmits and records under `seq`: a Data packet,
\* compressed and then encrypted when enabled and the provider is installed.
send_reliable_packet_encrypts_first(t, route, payload, seq) ==
    LET packet == [new_data(route, payload, seq) EXCEPT
                      !.timestamp = current_timestamp_at(env.now)]
        encrypted ==
            IF config[t].enable_encryption /\ crypto[t]
            THEN [packet EXCEPT !.payload = encrypt(packet.payload).val,
                                !.flags.encrypted = TRUE]
            ELSE packet
    IN  IF config[t].enable_compression /\ compression[t]
        THEN [encrypted EXCEPT !.payload = compress(encrypted.payload).val,
                               !.flags.compressed = TRUE]
        ELSE encrypted

send_reliable_packet(t, route, payload, seq) ==
    LET packet == [new_data(route, payload, seq) EXCEPT
                      !.timestamp = current_timestamp_at(env.now)]
        compressed ==
            IF config[t].enable_compression /\ compression[t]
            THEN [packet EXCEPT !.payload = compress(packet.payload).val,
                                !.flags.compressed = TRUE]
            ELSE packet
    IN  IF config[t].enable_encryption /\ crypto[t]
        THEN [compressed EXCEPT !.payload = encrypt(compressed.payload).val,
                                !.flags.encrypted = TRUE]
        ELSE compressed

\* History: one more transmission of sequence seq by transport t.
Count(c, t, seq) ==
    [c EXCEPT ![t] = MapInsert(@, seq,
        IF seq \in DOMAIN @ THEN Min(@[seq] + 1, CopiesCap) ELSE 1)]

\* send_reliable up to socket.send_to: take the next sequence number, build the
\* packet, serialize and transmit it.  The caller keeps the packet for the record.
SendReliableTransmit(t, route, payload, dest) ==
    LET seq == sequence[t]
        packet == send_reliable_packet(t, route, payload, seq)
    IN  /\ sequence' = [sequence EXCEPT ![t] = next_sequence(seq)]
        /\ \E delivered \in FirstOutcomes(dest) :
              socket' = IF delivered THEN Deliver(socket, t, serialize(packet), dest)
                        ELSE socket
        /\ copies' = Count(copies, t, seq)

\* send_reliable from the insertion on: store the packet for retransmission.
SendReliableRecord(t, packet, dest) ==
    pending_acks' = [pending_acks EXCEPT
                        ![t] = MapInsert(@, packet.sequence, PendingPacket(packet, dest))]

\* The Acks recv transmits for the packet it is about to return, each with its
\* destination: one for a Data packet that requires an Ack, none otherwise.
acks_for_any_type(packet, remote_addr) ==
    IF packet.flags.requires_ack
    THEN <<[packet |-> new_ack(packet.sequence), dest |-> remote_addr]>>
    ELSE <<>>
acks_for(packet, remote_addr) ==
    IF packet.flags.requires_ack /\ packet.packet_type = "Data"
    THEN <<[packet |-> new_ack(packet.sequence), dest |-> remote_addr]>>
    ELSE <<>>

\* recv on datagram d: the result, and the Ack it transmits.
recv_skips_missing_provider(t, d, parsed) ==
    LET packet == parsed.val
        decrypted ==
            IF ~packet.flags.encrypted \/ ~crypto[t] THEN Ok(packet)
            ELSE IF ~decrypt(packet.payload).ok THEN Err(decrypt(packet.payload).err)
            ELSE Ok([packet EXCEPT !.payload = decrypt(packet.payload).val])
        decompressed ==
            IF ~decrypted.ok THEN decrypted
            ELSE IF ~decrypted.val.flags.compressed \/ ~compression[t] THEN decrypted
            ELSE IF ~decompress(decrypted.val.payload).ok
                 THEN Err(decompress(decrypted.val.payload).err)
            ELSE Ok([decrypted.val EXCEPT !.payload = decompress(decrypted.val.payload).val])
    IN  IF ~parsed.ok THEN [ok |-> FALSE, err |-> parsed.err, acks |-> <<>>]
        ELSE IF ~decompressed.ok THEN [ok |-> FALSE, err |-> decompressed.err, acks |-> <<>>]
        ELSE [ok |-> TRUE, packet |-> decompressed.val, addr |-> d.addr,
              acks |-> acks_for(decompressed.val, d.addr)]

recv_parsed(t, d, parsed) ==
    LET packet == parsed.val
        decrypted ==
            IF ~packet.flags.encrypted THEN Ok(packet)
            ELSE IF ~crypto[t] THEN Err("Encryption")
            ELSE IF ~decrypt(packet.payload).ok THEN Err(decrypt(packet.payload).err)
            ELSE Ok([packet EXCEPT !.payload = decrypt(packet.payload).val])
        decompressed ==
            IF ~decrypted.ok THEN decrypted
            ELSE IF ~decrypted.val.flags.compressed THEN decrypted
            ELSE IF ~compression[t] THEN Err("Compression")
            ELSE IF ~decompress(decrypted.val.payload).ok
                 THEN Err(decompress(decrypted.val.payload).err)
            ELSE Ok([decrypted.val EXCEPT !.payload = decompress(decrypted.val.payload).val])
    IN  IF ~parsed.ok THEN [ok |-> FALSE, err |-> parsed.err, acks |-> <<>>]
        ELSE IF ~decompressed.ok THEN [ok |-> FALSE, err |-> decompressed.err, acks |-> <<>>]
        ELSE [ok |-> TRUE, packet |-> decompressed.val, addr |-> d.addr,
              acks |-> acks_for(decompressed.val, d.addr)]

\* Transport.recv on the datagram d that recv_from returned on t.
recv(t, d) == Only({recv_parsed(t, d, parsed) : parsed \in {deserialize(d.data)}})

\* handle_ack on a pending table
handle_ack_keeps(pending, seq) == pending
handle_ack_clears(pending, seq) == IF seq \in DOMAIN pending THEN EmptyMap ELSE pending
handle_ack(pending, seq) == MapRemove(pending, seq)

\* pending.attempts += 1 on a u8: an overflow panics with overflow checks (the
\* debug profile) and wraps without them (the release profile).
Overflows(pending, seq) == seq \in DOMAIN pending /\ pending[seq].attempts + 1 >= U8

\* handle_nack on a pending table
handle_nack(pending, seq) ==
    IF seq \notin DOMAIN pending THEN pending
    ELSE IF Overflows(pending, seq) /\ env.overflow_checks THEN pending
    ELSE [pending EXCEPT ![seq].attempts = (@ + 1) % U8, ![seq].age = 0]

\* The sequence whose entry handle_nack changes, if there is one.
renewed(pending, seq) == {s \in {seq} : handle_nack(pending, s) # pending}

\* The sweep's test of one entry: now - sent_at > ack_timeout.
Expired_at_timeout(t, e) == e.age >= config[t].ack_timeout
Expired(t, e) == e.age > config[t].ack_timeout

\* The sweep's test of the retry budget: attempts >= max_retransmit.
Exhausted_off_by_one(t, e) == e.attempts > config[t].max_retransmit
Exhausted(t, e) == e.attempts >= config[t].max_retransmit

\* The sequences one sweep removes, and those it retransmits.
to_remove(t) ==
    {s \in DOMAIN pending_acks[t] :
        Expired(t, pending_acks[t][s]) /\ Exhausted(t, pending_acks[t][s])}

retransmitted(t) ==
    {s \in DOMAIN pending_acks[t] :
        Expired(t, pending_acks[t][s]) /\ ~Exhausted(t, pending_acks[t][s])}

to_retransmit(t) ==
    {[packet |-> pending_acks[t][s].packet, dest |-> pending_acks[t][s].dest] :
        s \in retransmitted(t)}

\* The pending table after the locked part of one sweep.
swept(t) ==
    [s \in DOMAIN pending_acks[t] \ to_remove(t) |->
        IF s \in retransmitted(t)
        THEN [pending_acks[t][s] EXCEPT !.attempts = @ + 1, !.age = 0]
        ELSE pending_acks[t][s]]

\* ------------------------------------------------------ time and the sweep

\* The network and every task are faster than one tick when env.prompt is set:
\* time then advances only when nothing is in flight and no task is part-way.
Quiescent ==
    /\ \A t \in Endpoints :
          /\ socket[t] = EmptyBag
          /\ tasks[t] = EmptyBag
          /\ ~retx[t].due
          /\ retx[t].to_retransmit = {}
    /\ \A i \in DOMAIN calls : calls[i].pc \notin {"sent", "recorded", "expired"}

\* 100 ms pass: every pending entry is one tick older, every deadline one tick
\* nearer, and interval.tick() of every running retransmission task completes.
Tick ==
    /\ env.prompt => Quiescent
    /\ pending_acks' =
          [t \in Endpoints |->
              [s \in DOMAIN pending_acks[t] |->
                  [pending_acks[t][s] EXCEPT
                      !.age = Min(@ + 1, config[t].ack_timeout + 1)]]]
    /\ retx' = [t \in Endpoints |->
                  IF retx[t].running THEN [retx[t] EXCEPT !.due = TRUE] ELSE retx[t]]
    /\ calls' = [i \in DOMAIN calls |->
                  IF calls[i].pc = "waiting" /\ calls[i].left > 0
                  THEN [calls[i] EXCEPT !.left = @ - 1]
                  ELSE calls[i]]
    /\ conn' = [c \in Clients |->
                  IF conn[c].pc = "polling" /\ conn[c].left > 0
                  THEN [conn[c] EXCEPT !.left = @ - 1]
                  ELSE conn[c]]
    /\ env' = IF env.clock THEN [env EXCEPT !.now = Min(@ + 1, MaxClock)] ELSE env
    /\ UNCHANGED <<queue, sequence, config, crypto, compression, socket, tasks, routes,
                   pending_requests, request_timeout, recv_loop, copies, handled,
                   replies, recv_log, codec>>

\* The locked part of one sweep of the retransmission task of t.
SweepScan(t) ==
    /\ retx[t].running
    /\ retx[t].due
    /\ retx[t].to_retransmit = {}
    /\ pending_acks' = [pending_acks EXCEPT ![t] = swept(t)]
    /\ retx' = [retx EXCEPT ![t].due = FALSE, ![t].to_retransmit = to_retransmit(t)]
    /\ handled' = [handled EXCEPT ![t].evicted = @ \cup to_remove(t), ![t].renewed = {}]
    /\ UNCHANGED <<queue, sequence, config, crypto, compression, socket, tasks, routes,
                   pending_requests, request_timeout, recv_loop, calls, conn, env,
                   copies, replies, recv_log, codec>>

\* The sweep re-emits one queued packet by raw send, after releasing the lock.
SweepEmit_resends_reliably(t) ==
    \E r \in retx[t].to_retransmit :
        /\ retx' = [retx EXCEPT ![t].to_retransmit = @ \ {r}]
        /\ sequence' = [sequence EXCEPT ![t] = next_sequence(@)]
        /\ \E delivered \in Outcomes(r.dest) :
              socket' = IF delivered
                        THEN Deliver(socket, t,
                                     serialize([r.packet EXCEPT !.sequence = sequence[t]]),
                                     r.dest)
                        ELSE socket
        /\ copies' = Count(copies, t, r.packet.sequence)
        /\ UNCHANGED <<queue, pending_acks, config, crypto, compression, tasks,
                       routes, pending_requests, request_timeout, recv_loop, calls,
                       conn, env, handled, replies, recv_log, codec>>
SweepEmit(t) ==
    \E r \in retx[t].to_retransmit :
        /\ retx' = [retx EXCEPT ![t].to_retransmit = @ \ {r}]
        /\ \E delivered \in Outcomes(r.dest) :
              socket' = IF delivered THEN Deliver(socket, t, serialize(r.packet), r.dest)
                        ELSE socket
        /\ copies' = Count(copies, t, r.packet.sequence)
        /\ UNCHANGED <<queue, sequence, pending_acks, config, crypto, compression, tasks,
                       routes, pending_requests, request_timeout, recv_loop, calls,
                       conn, env, handled, replies, recv_log, codec>>

\* ------------------------------------------------------------ receive loops

Task(packet, addr) == [packet |-> packet, remote_addr |-> addr, pc |-> "start", reply |-> <<>>]

\* transport.recv() on t returns r for datagram d: the datagram leaves the
\* socket and the Ack recv transmits, if any, goes to the network.
RecvStep(t, d, r) ==
        /\ \E delivered \in Outcomes(d.addr) :
              socket' = IF r.acks # <<>> /\ delivered
                        THEN Deliver(Take(socket, t, d), t,
                                     serialize(r.acks[1].packet), r.acks[1].dest)
                        ELSE Take(socket, t, d)
        /\ handled' = IF r.ok /\ r.packet.packet_type = "Data"
                      THEN [handled EXCEPT
                              ![t].received = @ \cup {<<r.addr, r.packet.sequence>>}]
                      ELSE handled
        /\ recv_log' = [recv_log EXCEPT
                           ![t] = @ \cup
                              {[data |-> d.data, addr |-> d.addr, ok |-> r.ok,
                                returned |-> IF r.ok THEN <<r.packet>> ELSE <<>>,
                                err |-> IF r.ok THEN "" ELSE r.err,
                                acks |-> r.acks]}]

\* The match on recv's result in the loops of Server.listen and
\* Client.start_recv_loop: the Ok arm spawns and the Err arm logs, and both
\* fall through to the next iteration.
loop_returns_on_error(r) == r.ok
loop_continues(r) == TRUE

\* One iteration of a loop around transport.recv() on t: take a datagram, run
\* recv on it, and spawn handle_packet on success.
RecvAndSpawn_once_per_sequence(t) ==
    \E d \in BagToSet(socket[t]) : \E r \in {recv(t, d)} :
        /\ RecvStep(t, d, r)
        /\ tasks' = IF r.ok /\ <<r.addr, r.packet.sequence>> \notin handled[t].received
                    THEN [tasks EXCEPT
                            ![t] = @ (+) SetToBag({Task(r.packet, r.addr)})]
                    ELSE tasks
        /\ recv_loop' = [recv_loop EXCEPT ![t] = loop_continues(r)]
RecvAndSpawn(t) ==
    \E d \in BagToSet(socket[t]) : \E r \in {recv(t, d)} :
        /\ RecvStep(t, d, r)
        /\ tasks' = IF r.ok
                    THEN [tasks EXCEPT
                            ![t] = @ (+) SetToBag({Task(r.packet, r.addr)})]
                    ELSE tasks
        /\ recv_loop' = [recv_loop EXCEPT ![t] = loop_continues(r)]

\* The tasks of t that are not stuck in a handler that never returns.
Running(t) ==
    [task \in {x \in BagToSet(tasks[t]) : x.pc # "blocked"} |-> tasks[t][task]]

\* The environment: a datagram from some address arrives at t's socket.
Inject(t) ==
    /\ env.injects # 0
    /\ BagCardinality(socket[t]) + BagCardinality(Running(t)) < MaxInFlight
    /\ \E d \in env.injectable :
          socket' = [socket EXCEPT ![t] = @ (+) SetToBag({d})]
    /\ env' = [env EXCEPT !.injects = IF @ > 0 THEN @ - 1 ELSE @]
    /\ UNCHANGED <<queue, sequence, pending_acks, config, crypto, compression, retx, tasks,
                   routes, pending_requests, request_timeout, recv_loop, calls, conn,
                   copies, handled, replies, recv_log, codec>>

\* ------------------------------------------------------------------ client

\* Client.send and Client.request: send_reliable up to the transmission.
CallTransmit(i) ==
    /\ calls[i].pc = "idle"
    /\ \A k \in DOMAIN calls : k < i => calls[k].pc # "idle"
    /\ SendReliableTransmit(calls[i].client, calls[i].route, calls[i].payload, Server)
    /\ calls' = [calls EXCEPT
                    ![i].pc = "sent",
                    ![i].sequence = sequence[calls[i].client],
                    ![i].packet = <<send_reliable_packet(calls[i].client, calls[i].route,
                                        calls[i].payload, sequence[calls[i].client])>>]
    /\ UNCHANGED <<queue, pending_acks, config, crypto, compression, retx, tasks, routes,
                   pending_requests, request_timeout, recv_loop, conn, env, handled,
                   replies, recv_log, codec>>

\* A send that goes through the slot insertion of request.
CallRecord_inserts_slot(i) ==
    /\ calls[i].pc = "sent"
    /\ SendReliableRecord(calls[i].client, calls[i].packet[1], Server)
    /\ calls' = [calls EXCEPT
                    ![i].pc = IF calls[i].op = "send" THEN "done" ELSE "recorded",
                    ![i].result = IF calls[i].op = "send" THEN "Ok" ELSE @]
    /\ pending_requests' = [pending_requests EXCEPT
                              ![calls[i].client] = MapInsert(@, calls[i].sequence, i)]
    /\ UNCHANGED <<queue, sequence, config, crypto, compression, socket, retx, tasks, routes,
                   request_timeout, recv_loop, conn, env, copies, handled, replies,
                   recv_log, codec>>

\* send_reliable records the pending entry and returns the sequence; Client.send
\* returns it to its caller, Client.request goes on.
CallRecord(i) ==
    /\ calls[i].pc = "sent"
    /\ SendReliableRecord(calls[i].client, calls[i].packet[1], Server)
    /\ calls' = [calls EXCEPT
                    ![i].pc = IF calls[i].op = "send" THEN "done" ELSE "recorded",
                    ![i].result = IF calls[i].op = "send" THEN "Ok" ELSE @]
    /\ UNCHANGED <<queue, sequence, config, crypto, compression, socket, retx, tasks, routes,
                   pending_requests, request_timeout, recv_loop, conn, env, copies,
                   handled, replies, recv_log, codec>>

\* The Client.request calls of client c between the transmission of their
\* packet under the sequence seq and their timeout.
Outstanding(c, seq) ==
    {i \in DOMAIN calls :
        /\ calls[i].client = c
        /\ calls[i].op = "request"
        /\ calls[i].pc \in {"sent", "recorded", "waiting"}
        /\ calls[i].sequence = seq}

\* handle_packet with a lookup that falls back to an outstanding slot.
ClientHandle_falls_back(c) ==
    \E task \in BagToSet(tasks[c]) :
        LET slots == pending_requests[c]
            packet == IF /\ task.packet.packet_type = "Data"
                         /\ task.packet.sequence \notin DOMAIN slots
                         /\ slots # EmptyMap
                      THEN [task.packet EXCEPT
                               !.sequence = CHOOSE s \in DOMAIN slots : TRUE]
                      ELSE task.packet
            found == packet.packet_type = "Data" /\ packet.sequence \in DOMAIN slots
        IN  /\ tasks' = [tasks EXCEPT ![c] = @ (-) SetToBag({task})]
            /\ pending_requests' =
                  IF found
                  THEN [pending_requests EXCEPT ![c] = MapRemove(@, packet.sequence)]
                  ELSE pending_requests
            /\ calls' =
                  IF found /\ calls[slots[packet.sequence]].pc = "waiting"
                  THEN [calls EXCEPT ![slots[packet.sequence]].pc = "done",
                                     ![slots[packet.sequence]].result = "Ok",
                                     ![slots[packet.sequence]].response = packet.payload]
                  ELSE calls
            /\ pending_acks' =
                  CASE packet.packet_type = "Ack" ->
                         [pending_acks EXCEPT ![c] = handle_ack(@, packet.sequence)]
                    [] packet.packet_type = "Nack" ->
                         [pending_acks EXCEPT ![c] = handle_nack(@, packet.sequence)]
                    [] OTHER -> pending_acks
            /\ handled' =
                  CASE packet.packet_type = "Ack" ->
                         [handled EXCEPT
                            ![c].acked = @ \cup {packet.sequence},
                            ![c].ack_removed =
                                @ \cup (DOMAIN pending_acks[c]
                                           \ DOMAIN handle_ack(pending_acks[c],
                                                               packet.sequence))]
                    [] packet.packet_type = "Nack" ->
                         [handled EXCEPT
                            ![c].nacked = @ \cup {packet.sequence},
                            ![c].renewed =
                                @ \cup renewed(pending_acks[c], packet.sequence)]
                    [] packet.packet_type = "Data" ->
                         [handled EXCEPT
                            ![c].replied = @ \cup Outstanding(c, packet.sequence)]
                    [] OTHER -> handled
            /\ UNCHANGED <<queue, sequence, config, crypto, compression, socket, retx, routes,
                           request_timeout, recv_loop, conn, env, copies, replies,
                           recv_log, codec>>

\* Client.handle_packet, spawned by the receive loop of client c.
ClientHandle(c) ==
    \E task \in BagToSet(tasks[c]) :
        LET packet == task.packet
            slots == pending_requests[c]
            found == packet.packet_type = "Data" /\ packet.sequence \in DOMAIN slots
        IN  /\ tasks' = [tasks EXCEPT ![c] = @ (-) SetToBag({task})]
            /\ pending_requests' =
                  IF found
                  THEN [pending_requests EXCEPT ![c] = MapRemove(@, packet.sequence)]
                  ELSE pending_requests
            /\ calls' =
                  IF found /\ calls[slots[packet.sequence]].pc = "waiting"
                  THEN [calls EXCEPT ![slots[packet.sequence]].pc = "done",
                                     ![slots[packet.sequence]].result = "Ok",
                                     ![slots[packet.sequence]].response = packet.payload]
                  ELSE calls
            /\ pending_acks' =
                  CASE packet.packet_type = "Ack" ->
                         [pending_acks EXCEPT ![c] = handle_ack(@, packet.sequence)]
                    [] packet.packet_type = "Nack" ->
                         [pending_acks EXCEPT ![c] = handle_nack(@, packet.sequence)]
                    [] OTHER -> pending_acks
            /\ handled' =
                  CASE packet.packet_type = "Ack" ->
                         [handled EXCEPT
                            ![c].acked = @ \cup {packet.sequence},
                            ![c].ack_removed =
                                @ \cup (DOMAIN pending_acks[c]
                                           \ DOMAIN handle_ack(pending_acks[c],
                                                               packet.sequence))]
                    [] packet.packet_type = "Nack" ->
                         [handled EXCEPT
                            ![c].nacked = @ \cup {packet.sequence},
                            ![c].renewed =
                                @ \cup renewed(pending_acks[c], packet.sequence)]
                    [] packet.packet_type = "Data" ->
                         [handled EXCEPT
                            ![c].replied = @ \cup Outstanding(c, packet.sequence)]
                    [] OTHER -> handled
            /\ UNCHANGED <<queue, sequence, config, crypto, compression, socket, retx, routes,
                           request_timeout, recv_loop, conn, env, copies, replies,
                           recv_log, codec>>

\* The calls whose slot the insertion of call i's slot replaces: HashMap::insert
\* drops the PendingRequest stored under the same sequence, and with it the
\* sender half of a channel whose receiver is still awaited.
Replaced(i) ==
    {k \in DOMAIN calls \ {i} :
        /\ calls[k].client = calls[i].client
        /\ calls[k].pc = "waiting"
        /\ calls[i].sequence \in DOMAIN pending_requests[calls[i].client]
        /\ pending_requests[calls[i].client][calls[i].sequence] = k}

\* Client.request creates the one-shot channel and inserts its sender under the
\* sequence send_reliable returned, then waits for request_timeout.
RequestInsert(i) ==
    /\ calls[i].pc = "recorded"
    /\ pending_requests' = [pending_requests EXCEPT
                              ![calls[i].client] = MapInsert(@, calls[i].sequence, i)]
    /\ calls' = [k \in DOMAIN calls |->
                    IF k = i
                    THEN [calls[i] EXCEPT !.pc = "waiting",
                                          !.left = request_timeout[calls[i].client]]
                    ELSE IF k \in Replaced(i) THEN [calls[k] EXCEPT !.pc = "closed"]
                    ELSE calls[k]]
    /\ UNCHANGED <<queue, sequence, pending_acks, config, crypto, compression, socket, retx,
                   tasks, routes, request_timeout, recv_loop, conn, env, copies, handled,
                   replies, recv_log, codec>>

\* The receiver of a slot whose sender was dropped resolves with an error:
\* Client.request returns Channel.
RequestClosed(i) ==
    /\ calls[i].pc = "closed"
    /\ calls' = [calls EXCEPT ![i].pc = "done", ![i].result = "Channel"]
    /\ UNCHANGED <<queue, sequence, pending_acks, config, crypto, compression, socket, retx,
                   tasks, routes, pending_requests, request_timeout, recv_loop, conn, env,
                   copies, handled, replies, recv_log, codec>>

\* timeout(request_timeout, rx) elapses before a response was delivered.
RequestTimeout(i) ==
    /\ calls[i].pc = "waiting"
    /\ calls[i].left = 0
    /\ calls' = [calls EXCEPT ![i].pc = "expired"]
    /\ UNCHANGED <<queue, sequence, pending_acks, config, crypto, compression, socket, retx,
                   tasks, routes, pending_requests, request_timeout, recv_loop, conn, env,
                   copies, handled, replies, recv_log, codec>>

\* The Timeout arm of Client.request: remove the slot and return Timeout.
RequestRemove(i) ==
    /\ calls[i].pc = "expired"
    /\ pending_requests' = [pending_requests EXCEPT
                              ![calls[i].client] = MapRemove(@, calls[i].sequence)]
    /\ calls' = [calls EXCEPT ![i].pc = "done", ![i].result = "Timeout"]
    /\ UNCHANGED <<queue, sequence, pending_acks, config, crypto, compression, socket, retx,
                   tasks, routes, request_timeout, recv_loop, conn, env, copies, handled,
                   replies, recv_log, codec>>

\* The caller drops the future of Client.request at one of its await points.
\* Client.request holds no guard, so dropping it runs no code of the client.
RequestCancel(i) ==
    /\ calls[i].op = "request"
    /\ calls[i].pc \in {"sent", "recorded", "waiting", "expired"}
    /\ calls' = [calls EXCEPT ![i].pc = "cancelled"]
    /\ UNCHANGED <<queue, sequence, pending_acks, config, crypto, compression, socket, retx,
                   tasks, routes, pending_requests, request_timeout, recv_loop, conn, env,
                   copies, handled, replies, recv_log, codec>>

\* Client.connect sends a Connect packet by raw send and starts polling.
ConnectSend(c) ==
    /\ conn[c].pc = "idle"
    /\ \E delivered \in Outcomes(Server) :
          socket' = IF delivered
                    THEN Deliver(socket, c, serialize(new_connect), Server)
                    ELSE socket
    /\ conn' = [conn EXCEPT ![c].pc = "polling", ![c].left = ConnectTicks]
    /\ UNCHANGED <<queue, sequence, pending_acks, config, crypto, compression, retx, tasks,
                   routes, pending_requests, request_timeout, recv_loop, calls, env, copies,
                   handled, replies, recv_log, codec>>

\* One iteration of the polling loop of Client.connect in which recv returns
\* within its 100 ms: a ConnectAck ends the call with success, any other
\* packet and any error is dropped.
ConnectPoll(c) ==
    /\ conn[c].pc = "polling"
    /\ conn[c].left > 0
    /\ \E d \in BagToSet(socket[c]) : \E r \in {recv(c, d)} :
          /\ RecvStep(c, d, r)
          /\ conn' = IF r.ok /\ r.packet.packet_type = "ConnectAck"
                     THEN [conn EXCEPT ![c].pc = "done", ![c].result = "Ok"]
                     ELSE conn
    /\ UNCHANGED <<queue, sequence, pending_acks, config, crypto, compression, retx, tasks,
                   routes, pending_requests, request_timeout, recv_loop, calls, env, copies,
                   replies, codec>>

\* The 5 s of Client.connect are over: it returns Timeout.
ConnectTimeout(c) ==
    /\ conn[c].pc = "polling"
    /\ conn[c].left = 0
    /\ conn' = [conn EXCEPT ![c].pc = "done", ![c].result = "Timeout"]
    /\ UNCHANGED <<queue, sequence, pending_acks, config, crypto, compression, socket, retx,
                   tasks, routes, pending_requests, request_timeout, recv_loop, calls, env,
                   copies, handled, replies, recv_log, codec>>

\* One iteration of the loop of Client.start_recv_loop.
ClientRecvLoop(c) ==
    /\ recv_loop[c]
    /\ RecvAndSpawn(c)
    /\ UNCHANGED <<queue, sequence, pending_acks, config, crypto, compression, retx, routes,
                   pending_requests, request_timeout, calls, conn, env, copies, replies,
                   codec>>

\* ------------------------------------------------------------------ server

\* Context::text
text(ctx) ==
    IF Len(ctx.payload) = 1 /\ ctx.payload[1] # BadUtf8 THEN Ok(ctx.payload[1])
    ELSE Err("Other error: UTF-8 error")

Response_text(t) == [data |-> Bytes_from(t)]

\* The handlers of the example server: /ping answers "pong", /echo answers its
\* input and fails on an input that is not UTF-8.  An Err carries the Display
\* text of the error.
Handler_handle(h, ctx) ==
    IF h = "/ping" THEN Ok(Response_text("pong"))
    ELSE IF text(ctx).ok THEN Ok(Response_text(text(ctx).val))
    ELSE Err(text(ctx).err)

Context(packet, remote_addr) ==
    [route |-> packet.route, payload |-> packet.payload, remote_addr |-> remote_addr,
     packet |-> packet]

\* The payload Server.handle_packet passes to send_reliable for a Data packet.
ReplyData_swallows_errors(packet, remote_addr) ==
    IF packet.route \in DOMAIN routes
    THEN LET res == Handler_handle(routes[packet.route], Context(packet, remote_addr))
         IN  IF res.ok THEN res.val.data
             ELSE Bytes_new
    ELSE Bytes_from("Route not found: " \o packet.route)
ReplyData(packet, remote_addr) ==
    IF packet.route \in DOMAIN routes
    THEN LET res == Handler_handle(routes[packet.route], Context(packet, remote_addr))
         IN  IF res.ok THEN res.val.data
             ELSE Bytes_from("Error: " \o res.err)
    ELSE Bytes_from("Route not found: " \o packet.route)

\* The ConnectAck Server.handle_packet builds: sequence 0 and timestamp 0.
ConnectAck ==
    [version |-> PROTOCOL_VERSION, packet_type |-> "ConnectAck", flags |-> PacketFlags_default,
     sequence |-> u32(0), timestamp |-> <<0, 0, 0, 0>>,
     route |-> "", payload |-> Bytes_new]

\* A handler that never returns.
Never == "never"

\* Server.on, on_fn or on_async is waiting for the write lock of the route
\* table: tokio's RwLock is fair, so no read lock is given out until the
\* writer at the head of the queue has had its turn.
WriterWaiting == \E i \in DOMAIN calls : calls[i].op = "on" /\ calls[i].pc = "waiting"

\* The tasks that hold a read lock of the route table: handle_packet keeps
\* the guard from the lookup to the end of the Data arm.
ReadGuards == {task \in BagToSet(tasks[Server]) : task.pc \in {"blocked", "replying"}}

\* What Server.handle_packet sends by raw send for a packet that is not Data.
RawAnswer_to_every_type(packet) ==
    CASE packet.packet_type = "Connect" -> <<ConnectAck>>
      [] OTHER -> <<new_heartbeat>>
RawAnswer(packet) ==
    CASE packet.packet_type = "Heartbeat" -> <<new_heartbeat>>
      [] packet.packet_type = "Connect" -> <<ConnectAck>>
      [] OTHER -> <<>>

\* Server.handle_packet on a Data packet, up to the transmission of the reply:
\* look the route up, run the handler, and start send_reliable to the sender.
ServerDispatch ==
    \E task \in BagToSet(tasks[Server]) :
        /\ task.pc = "start"
        /\ task.packet.packet_type = "Data"
        /\ ~WriterWaiting
        /\ task.packet.route \in DOMAIN routes => routes[task.packet.route] # Never
        /\ SendReliableTransmit(Server, task.packet.route,
                                ReplyData(task.packet, task.remote_addr), task.remote_addr)
        /\ LET reply == send_reliable_packet(Server, task.packet.route,
                            ReplyData(task.packet, task.remote_addr), sequence[Server])
           IN  /\ tasks' = [tasks EXCEPT
                              ![Server] = (@ (-) SetToBag({task}))
                                  (+) SetToBag({[task EXCEPT !.pc = "replying",
                                                             !.reply = <<reply>>]})]
               /\ replies' = replies \cup
                                {[request |-> task.packet, remote_addr |-> task.remote_addr,
                                  route |-> task.packet.route,
                                  data |-> ReplyData(task.packet, task.remote_addr),
                                  dest |-> task.remote_addr, packet |-> reply]}
        /\ handled' = [handled EXCEPT ![Server].dispatched = @ + 1]
        /\ UNCHANGED <<queue, pending_acks, config, crypto, compression, retx, routes,
                       pending_requests, request_timeout, recv_loop, calls, conn, env,
                       recv_log, codec>>

\* Server.handle_packet on a Data packet whose handler never returns: the
\* task stays in handler.handle(ctx).await, holding its read lock.
ServerBlock ==
    \E task \in BagToSet(tasks[Server]) :
        /\ task.pc = "start"
        /\ task.packet.packet_type = "Data"
        /\ ~WriterWaiting
        /\ task.packet.route \in DOMAIN routes /\ routes[task.packet.route] = Never
        /\ tasks' = [tasks EXCEPT
                        ![Server] = (@ (-) SetToBag({task}))
                            (+) SetToBag({[task EXCEPT !.pc = "blocked"]})]
        /\ UNCHANGED <<queue, sequence, pending_acks, config, crypto, compression, socket, retx,
                       routes, pending_requests, request_timeout, recv_loop, calls, conn,
                       env, copies, handled, replies, recv_log, codec>>

\* A call of Server.on(route, handler), by a caller that awaits one
\* registration before it makes the next.
On(route, handler) ==
    [op |-> "on", client |-> Server, route |-> route, handler |-> handler, pc |-> "idle"]

\* Server.on up to routes.write().await: with no read lock held the write lock
\* is granted at once and the route inserted; otherwise the call waits.
OnRequest(i) ==
    /\ calls[i].op = "on"
    /\ calls[i].pc = "idle"
    /\ \A j \in 1..(i - 1) : calls[j].pc = "done"
    /\ IF ReadGuards = {}
       THEN /\ routes' = MapInsert(routes, calls[i].route, calls[i].handler)
            /\ calls' = [calls EXCEPT ![i].pc = "done"]
       ELSE /\ routes' = routes
            /\ calls' = [calls EXCEPT ![i].pc = "waiting"]
    /\ UNCHANGED <<queue, sequence, pending_acks, config, crypto, compression, socket, retx,
                   tasks, pending_requests, request_timeout, recv_loop, conn, env,
                   copies, handled, replies, recv_log, codec>>

\* Server.on from the moment the last read lock is released: insert.
OnInsert(i) ==
    /\ calls[i].op = "on"
    /\ calls[i].pc = "waiting"
    /\ ReadGuards = {}
    /\ routes' = MapInsert(routes, calls[i].route, calls[i].handler)
    /\ calls' = [calls EXCEPT ![i].pc = "done"]
    /\ UNCHANGED <<queue, sequence, pending_acks, config, crypto, compression, socket, retx,
                   tasks, pending_requests, request_timeout, recv_loop, conn, env,
                   copies, handled, replies, recv_log, codec>>

\* send_reliable of the reply records its pending entry; handle_packet returns.
ServerRecord ==
    \E task \in BagToSet(tasks[Server]) :
        /\ task.pc = "replying"
        /\ SendReliableRecord(Server, task.reply[1], task.remote_addr)
        /\ tasks' = [tasks EXCEPT ![Server] = @ (-) SetToBag({task})]
        /\ UNCHANGED <<queue, sequence, config, crypto, compression, socket, retx, routes,
                       pending_requests, request_timeout, recv_loop, calls, conn, env,
                       copies, handled, replies, recv_log, codec>>

\* Server.handle_packet on every other packet type.
ServerHandle ==
    \E task \in BagToSet(tasks[Server]) :
        LET packet == task.packet
        IN  /\ packet.packet_type # "Data"
            /\ tasks' = [tasks EXCEPT ![Server] = @ (-) SetToBag({task})]
            /\ pending_acks' =
                  CASE packet.packet_type = "Ack" ->
                         [pending_acks EXCEPT ![Server] = handle_ack(@, packet.sequence)]
                    [] packet.packet_type = "Nack" ->
                         [pending_acks EXCEPT ![Server] = handle_nack(@, packet.sequence)]
                    [] OTHER -> pending_acks
            /\ handled' =
                  CASE packet.packet_type = "Ack" ->
                         [handled EXCEPT
                            ![Server].acked = @ \cup {packet.sequence},
                            ![Server].ack_removed =
                                @ \cup (DOMAIN pending_acks[Server]
                                           \ DOMAIN handle_ack(pending_acks[Server],
                                                               packet.sequence))]
                    [] packet.packet_type = "Nack" ->
                         [handled EXCEPT
                            ![Server].nacked = @ \cup {packet.sequence},
                            ![Server].renewed =
                                @ \cup renewed(pending_acks[Server], packet.sequence)]
                    [] OTHER -> handled
            /\ \E delivered \in Outcomes(task.remote_addr) :
                  socket' = IF RawAnswer(packet) # <<>> /\ delivered
                            THEN Deliver(socket, Server, serialize(RawAnswer(packet)[1]),
                                         task.remote_addr)
                            ELSE socket
            /\ conn' = [c \in Clients |->
                          IF /\ c = task.remote_addr
                             /\ packet.packet_type = "Connect"
                             /\ socket'[c] # socket[c]
                             /\ conn[c].pc = "polling" /\ conn[c].left > 0
                          THEN [conn[c] EXCEPT !.reached = TRUE]
                          ELSE conn[c]]
            /\ UNCHANGED <<queue, sequence, config, crypto, compression, retx, routes,
                           pending_requests, request_timeout, recv_loop, calls, env,
                           copies, replies, recv_log, codec>>

\* One iteration of the loop of Server.listen.
ServerListen ==
    /\ recv_loop[Server]
    /\ RecvAndSpawn(Server)
    /\ UNCHANGED <<queue, sequence, pending_acks, config, crypto, compression, retx, routes,
                   pending_requests, request_timeout, calls, conn, env, copies, replies,
                   codec>>

\* --------------------------------------------------------------- job queue

\* Option<T>
None == [some |-> FALSE]
Some(v) == [some |-> TRUE, val |-> v]

\* JobPriority, by discriminant.
JobPriority_Normal == 1
JobPriority_High == 2

\* JobConfig::default(), its times in ticks of 100 ms.
JobConfig_default ==
    [max_retries |-> 3, retry_delay |-> 10, timeout |-> 300,
     priority |-> JobPriority_Normal, scheduled_at |-> None]

\* The configurations jobs are enqueued with.
JobConfigs ==
    {[JobConfig_default EXCEPT !.max_retries = MaxJobRetries,
                               !.retry_delay = RetryDelayTicks, !.priority = p] :
        p \in {JobPriority_Normal, JobPriority_High}}

\* The names jobs are enqueued under; the second never gets a handler.
JobNames == {"test_job", "no_handler"}
Workers == 1..WorkerCount

\* No JobQueue has been constructed.
NoJobQueue == [pc |-> "none"]

\* JobQueue::new, with the tasks `start` will spawn and the calls to come.
JobQueue_new(worker_count) ==
    [pc |-> "new", pending |-> {}, processing |-> EmptyMap, completed |-> EmptyMap,
     handlers |-> EmptyMap, worker_count |-> worker_count, shutdown |-> FALSE,
     workers |-> [w \in 1..worker_count |-> [pc |-> "loop"]],
     now |-> 0, enqueued |-> 0, cleared |-> FALSE,
     lookup |-> [pc |-> "none"], lookups |-> 0, runs |-> EmptyMap]

\* generate_job_id: an id no job has had.
generate_job_id == queue.enqueued + 1

\* Job::new
Job_new(name, cfg) ==
    [id |-> generate_job_id, name |-> name, payload |-> Bytes_from("payload"),
     status |-> IF cfg.scheduled_at.some THEN "Scheduled" ELSE "Pending",
     config |-> cfg, attempts |-> 0, created_at |-> queue.now,
     started_at |-> None, completed_at |-> None, error |-> None]

\* Job::should_execute
should_execute(job) ==
    IF job.config.scheduled_at.some THEN queue.now >= job.config.scheduled_at.val
    ELSE TRUE

\* Ord for Job: a is less than b.
Job_lt(a, b) ==
    \/ a.config.priority < b.config.priority
    \/ a.config.priority = b.config.priority /\ a.created_at < b.created_at

\* The jobs BinaryHeap::pop may give first.
Greatest(heap) == {a \in heap : \A b \in heap : ~Job_lt(a, b)}

\* JobQueue::process_job: the handler is synchronous, so the timeout around it
\* never fires.
process_job(job) ==
    IF job.name \notin DOMAIN queue.handlers THEN Err("Other")
    ELSE Ok(queue.handlers[job.name])

\* The rest of the program stands still while the job queue runs.
JobStep ==
    UNCHANGED <<sequence, pending_acks, config, crypto, compression, socket, retx,
                tasks, routes, pending_requests, request_timeout, recv_loop, calls,
                conn, env, copies, handled, replies, recv_log, codec>>

\* JobQueue::new(2), as in test_job_queue.
New ==
    /\ queue.pc = "none"
    /\ queue' = JobQueue_new(WorkerCount)
    /\ JobStep

\* JobQueue::register with a handler that returns Ok("result").
Register(job_name) ==
    /\ queue.pc = "new"
    /\ job_name \notin DOMAIN queue.handlers
    /\ queue' = [queue EXCEPT !.handlers = MapInsert(@, job_name, Bytes_from("result"))]
    /\ JobStep

\* JobQueue::add_job
add_job(job) ==
    queue' = [queue EXCEPT !.pending = @ \cup {job}, !.enqueued = @ + 1]

\* JobQueue::enqueue, from Job::new to the return of the id.
Enqueue(name, cfg) ==
    /\ queue.pc \in {"new", "started"}
    /\ queue.enqueued < MaxJobs
    /\ add_job(Job_new(name, cfg))
    /\ JobStep

\* JobQueue::schedule, up to the return of enqueue.
Schedule(name, delay_ms) ==
    /\ queue.pc \in {"new", "started"}
    /\ queue.enqueued < MaxJobs
    /\ add_job(Job_new(name, [JobConfig_default EXCEPT
                                 !.scheduled_at = Some(queue.now + delay_ms)]))
    /\ JobStep

\* JobQueue::start: the scheduler and the workers are spawned.
Start ==
    /\ queue.pc = "new"
    /\ queue' = [queue EXCEPT !.pc = "started"]
    /\ JobStep

\* The clock moves on by one tick.
JobClock ==
    /\ queue.pc \in {"new", "started"}
    /\ queue.now < MaxJobNow
    /\ queue' = [queue EXCEPT !.now = @ + 1]
    /\ JobStep

\* One round of run_scheduler under the write lock of `pending`: the scheduled
\* jobs that are due become Pending.
RunScheduler ==
    /\ queue.pc = "started"
    /\ ~queue.shutdown
    /\ \E job \in queue.pending : job.status = "Scheduled" /\ should_execute(job)
    /\ queue' = [queue EXCEPT !.pending =
                    {IF job.status = "Scheduled" /\ should_execute(job)
                        THEN [job EXCEPT !.status = "Pending"] ELSE job : job \in @}]
    /\ JobStep

\* run_worker sees the shutdown flag and ends.
WorkerStop(w) ==
    /\ queue.pc = "started"
    /\ queue.workers[w].pc = "loop"
    /\ queue.shutdown
    /\ queue' = [queue EXCEPT !.workers[w].pc = "stopped"]
    /\ JobStep

\* run_worker, "Get next job": under the write lock of `pending` the worker
\* pops until a Pending job that should execute comes, and pushes the others
\* back.  With no such job it sleeps and looks again.
WorkerTake(w) ==
    /\ queue.pc = "started"
    /\ queue.workers[w].pc = "loop"
    /\ ~queue.shutdown
    /\ \E job \in Greatest({j \in queue.pending :
                               j.status = "Pending" /\ should_execute(j)}) :
          queue' = [queue EXCEPT !.pending = @ \ {job},
                                 !.workers[w] = [pc |-> "taken", job |-> job]]
    /\ JobStep

\* run_worker, "Mark as processing": the job is inserted into `processing`.
WorkerInsert(w) ==
    /\ queue.pc = "started"
    /\ queue.workers[w].pc = "taken"
    /\ \E job \in {[queue.workers[w].job EXCEPT !.status = "Processing",
                                                !.started_at = Some(queue.now),
                                                !.attempts = @ + 1]} :
          queue' = [queue EXCEPT !.processing = MapInsert(@, job.id, job),
                                 !.workers[w] = [pc |-> "inserted", job |-> job]]
    /\ JobStep

\* History: how many times process_job has run the job with this id.
Executions(id) == IF id \in DOMAIN queue.runs THEN queue.runs[id] ELSE 0

\* run_worker, "Process job".
WorkerProcess(w) ==
    /\ queue.pc = "started"
    /\ queue.workers[w].pc = "inserted"
    /\ queue' = [queue EXCEPT !.workers[w] =
                    [pc |-> "processed", job |-> @.job, result |-> process_job(@.job)],
                              !.runs = MapInsert(@, queue.workers[w].job.id,
                                                 Executions(queue.workers[w].job.id) + 1)]
    /\ JobStep

\* The job after the match on the result of process_job.
AfterResult(job, result) ==
    IF result.ok
        THEN [job EXCEPT !.status = "Completed", !.completed_at = Some(queue.now)]
    ELSE IF job.attempts < job.config.max_retries
        THEN [job EXCEPT !.error = Some(result.err), !.status = "Scheduled",
                         !.config.scheduled_at = Some(queue.now + job.config.retry_delay)]
    ELSE [job EXCEPT !.error = Some(result.err), !.status = "Failed"]

\* run_worker, "Remove from processing", and the match on the result up to
\* its next lock.
WorkerRemove(w) ==
    /\ queue.pc = "started"
    /\ queue.workers[w].pc = "processed"
    /\ \E job \in {AfterResult(queue.workers[w].job, queue.workers[w].result)} :
          queue' = [queue EXCEPT !.processing = MapRemove(@, job.id),
                                 !.workers[w] =
                                     [pc |-> IF job.status = "Scheduled" THEN "retry"
                                             ELSE "store",
                                      job |-> job]]
    /\ JobStep

\* run_worker, "Schedule retry": the job goes back into `pending`.
WorkerRetry(w) ==
    /\ queue.pc = "started"
    /\ queue.workers[w].pc = "retry"
    /\ queue' = [queue EXCEPT !.pending = @ \cup {queue.workers[w].job},
                              !.workers[w].pc = "store"]
    /\ JobStep

\* run_worker, "Store in completed history".
WorkerStore(w) ==
    /\ queue.pc = "started"
    /\ queue.workers[w].pc = "store"
    /\ queue' = [queue EXCEPT !.completed =
                                  MapInsert(@, queue.workers[w].job.id, queue.workers[w].job),
                              !.workers[w] = [pc |-> "loop"]]
    /\ JobStep

\* JobQueue::get_job is called with an id enqueue has returned.
GetJob(job_id) ==
    /\ queue.pc \in {"new", "started"}
    /\ queue.lookup.pc \in {"none", "done"}
    /\ queue.lookups < MaxLookups
    /\ job_id \in 1..queue.enqueued
    /\ queue' = [queue EXCEPT !.lookup = [pc |-> "processing", job_id |-> job_id],
                              !.lookups = @ + 1]
    /\ JobStep

\* get_job, "Check processing", under the read lock of `processing`.
GetJobProcessing ==
    /\ queue.pc \in {"new", "started"}
    /\ queue.lookup.pc = "processing"
    /\ queue' = [queue EXCEPT !.lookup =
                    IF @.job_id \in DOMAIN queue.processing
                        THEN [pc |-> "done", job_id |-> @.job_id,
                              result |-> Some(queue.processing[@.job_id])]
                    ELSE [@ EXCEPT !.pc = "completed"]]
    /\ JobStep

\* get_job, "Check completed", under the read lock of `completed`.
GetJobCompleted ==
    /\ queue.pc \in {"new", "started"}
    /\ queue.lookup.pc = "completed"
    /\ queue' = [queue EXCEPT !.lookup =
                    IF @.job_id \in DOMAIN queue.completed
                        THEN [pc |-> "done", job_id |-> @.job_id,
                              result |-> Some(queue.completed[@.job_id])]
                    ELSE [@ EXCEPT !.pc = "pending"]]
    /\ JobStep

\* get_job, "Check pending", under the read lock of `pending`, and the None
\* at its end.
GetJobPending ==
    /\ queue.pc \in {"new", "started"}
    /\ queue.lookup.pc = "pending"
    /\ queue' = [queue EXCEPT !.lookup =
                    [pc |-> "done", job_id |-> @.job_id,
                     result |-> IF \E job \in queue.pending : job.id = @.job_id
                                    THEN Some(CHOOSE job \in queue.pending :
                                                 job.id = @.job_id)
                                ELSE None]]
    /\ JobStep

\* JobQueue::shutdown
Shutdown ==
    /\ queue.pc = "started"
    /\ ~queue.shutdown
    /\ queue' = [queue EXCEPT !.shutdown = TRUE]
    /\ JobStep

\* JobQueue::clear_completed
ClearCompleted ==
    /\ queue.pc \in {"new", "started"}
    /\ ~queue.cleared
    /\ queue' = [queue EXCEPT !.completed = EmptyMap, !.cleared = TRUE]
    /\ JobStep

\* ---------------------------------------------------------- initial states

Call(op, client, route, payload) ==
    [op |-> op, client |-> client, route |-> route, payload |-> payload, pc |-> "idle",
     sequence |-> u32(0), packet |-> <<>>, left |-> 0, result |-> "none", response |-> <<>>]

NoHistory ==
    [acked |-> {}, ack_removed |-> {}, nacked |-> {}, renewed |-> {}, evicted |-> {},
     received |-> {}, dispatched |-> 0, replied |-> {}]

Network(unreachable, lossy, first_lost, prompt, injects, injectable) ==
    [unreachable |-> unreachable, lossy |-> lossy, first_lost |-> first_lost,
     prompt |-> prompt, injects |-> injects, injectable |-> injectable,
     overflow_checks |-> FALSE, clock |-> FALSE, now |-> 0]

\* No transport has an encryptor or a compressor.
NoProviders ==
    /\ crypto = [t \in Endpoints |-> FALSE]
    /\ compression = [t \in Endpoints |-> FALSE]

\* The state after Server::new, Client::new and the registrations of the example
\* server, with the given configurations, running loops, calls to come and
\* environment; `addrs` are the addresses whose sockets are looked at.
ConstructedOn(cfg, looping, cs, network, packet, addrs) ==
    /\ codec = packet
    /\ pending_acks = [t \in Endpoints |-> EmptyMap]
    /\ config = cfg
    /\ socket = [t \in addrs |-> EmptyBag]
    /\ retx = [t \in Endpoints |->
                  [running |-> t \in looping, due |-> FALSE, to_retransmit |-> {}]]
    /\ tasks = [t \in Endpoints |-> EmptyBag]
    /\ routes = [r \in {"/ping", "/echo"} |-> r]
    /\ pending_requests = [c \in Clients |-> EmptyMap]
    /\ recv_loop = [t \in Endpoints |-> t \in looping]
    /\ calls = cs
    /\ conn = [c \in Clients |->
                  [pc |-> "idle", left |-> 0, result |-> "none", reached |-> FALSE]]
    /\ env = network
    /\ copies = [t \in Endpoints |-> EmptyMap]
    /\ handled = [t \in Endpoints |-> NoHistory]
    /\ replies = {}
    /\ recv_log = [t \in Endpoints |-> {}]
    /\ queue = NoJobQueue

\* No packet is on its way through the codec.
NoPacket == [pc |-> "none", packet |-> <<>>, bytes |-> <<>>, result |-> <<>>]

ConstructedWith(cfg, looping, cs, network, packet) ==
    ConstructedOn(cfg, looping, cs, network, packet, Endpoints)

Constructed(cfg, looping, cs, network) ==
    ConstructedWith(cfg, looping, cs, network, NoPacket)

\* ------------------------------------------- the transport of one client

Sender == "c1"

Configs ==
    {[TransportConfig_default EXCEPT !.ack_timeout = AckTimeoutTicks, !.max_retransmit = m] :
        m \in {MaxRetransmitCfg - 1, MaxRetransmitCfg}}

\* The steps of one client whose receive loop runs and whose peer sends what
\* the environment decides.
NextTransport ==
    \/ \E i \in DOMAIN calls : CallTransmit(i)
    \/ \E i \in DOMAIN calls : CallRecord(i)
    \/ Tick
    \/ SweepScan(Sender)
    \/ SweepEmit(Sender)
    \/ Inject(Sender)
    \/ ClientRecvLoop(Sender)
    \/ ClientHandle(Sender)

\* With fairness: the timers fire, and the spawned tasks and the calls that have
\* started run on (tokio schedules every ready task).  The environment and the
\* callers owe nothing.
FairTransport ==
    /\ WF_vars(Tick)
    /\ WF_vars(SweepScan(Sender))
    /\ WF_vars(SweepEmit(Sender))
    /\ WF_vars(ClientRecvLoop(Sender))
    /\ WF_vars(ClientHandle(Sender))
    /\ WF_vars(\E i \in DOMAIN calls : CallRecord(i))

\* A client whose peer suppresses every Ack: nothing ever arrives.  The counter
\* starts at its last value, so that the second send wraps it.
InitNoAck ==
    /\ NoProviders
    /\ sequence = [t \in Endpoints |-> IF t = Sender THEN U32_MAX ELSE u32(0)]
    /\ request_timeout = [c \in Clients |-> 0]
    /\ \E cfg \in Configs, slow \in {0, 1} :
          Constructed([t \in Endpoints |-> [cfg EXCEPT !.ack_timeout = @ + slow]], {Sender},
                      [i \in 1..MaxSends |-> Call("send", Sender, "/ping", Bytes_new)],
                      Network(Endpoints \ {Sender}, FALSE, FALSE, FALSE, 0, {}))

NextNoAck ==
    \/ \E i \in DOMAIN calls : CallTransmit(i)
    \/ \E i \in DOMAIN calls : CallRecord(i)
    \/ Tick
    \/ SweepScan(Sender)
    \/ SweepEmit(Sender)

SpecNoAck == InitNoAck /\ [][NextNoAck]_vars /\ FairTransport

\* The same client, one reliable send, and a peer that may answer it with Nack
\* packets without end; the build has overflow checks or has none.
InitNackFlood ==
    /\ NoProviders
    /\ sequence = [t \in Endpoints |-> u32(0)]
    /\ request_timeout = [c \in Clients |-> 0]
    /\ \E cfg \in Configs, checks \in BOOLEAN :
          Constructed([t \in Endpoints |-> cfg], {Sender},
                      <<Call("send", Sender, "/ping", Bytes_new)>>,
                      [Network(Endpoints \ {Sender}, FALSE, FALSE, FALSE, -1,
                               {Datagram(serialize([new_ack(u32(0)) EXCEPT
                                                       !.packet_type = "Nack"]), Server)})
                          EXCEPT !.overflow_checks = checks])

SpecNackFlood == InitNackFlood /\ [][NextTransport]_vars /\ FairTransport

\* ------------------------------------- one client and the server, first copy lost

\* The client sends reliably to the listening server.  The network loses the
\* first copy of every reliable packet and delivers every later datagram, and
\* it and the tasks are faster than one tick.  max_retransmit is at least 1.
InitFirstLost ==
    /\ NoProviders
    /\ sequence = [t \in Endpoints |-> u32(0)]
    /\ request_timeout = [c \in Clients |-> 0]
    /\ \E cfg \in {c \in Configs : c.max_retransmit >= 1}, slow \in {0, 1} :
          Constructed([t \in Endpoints |-> [cfg EXCEPT !.ack_timeout = @ + slow]],
                      {Sender, Server},
                      [i \in 1..MaxAnsweredSends |->
                          Call("send", Sender, "/ping", Bytes_new)],
                      Network(Clients \ {Sender}, FALSE, TRUE, TRUE, 0, {}))

NextFirstLost ==
    \/ \E i \in DOMAIN calls : CallTransmit(i)
    \/ \E i \in DOMAIN calls : CallRecord(i)
    \/ Tick
    \/ \E t \in {Sender, Server} : SweepScan(t)
    \/ \E t \in {Sender, Server} : SweepEmit(t)
    \/ ClientRecvLoop(Sender)
    \/ ClientHandle(Sender)
    \/ ServerListen
    \/ ServerDispatch
    \/ ServerRecord
    \/ ServerHandle

FairServer ==
    /\ WF_vars(SweepScan(Server))
    /\ WF_vars(SweepEmit(Server))
    /\ WF_vars(ServerListen)
    /\ WF_vars(ServerDispatch)
    /\ WF_vars(ServerRecord)
    /\ WF_vars(ServerHandle)

SpecFirstLost == InitFirstLost /\ [][NextFirstLost]_vars /\ FairTransport /\ FairServer

\* ------------------------------------------------ requests, end to end

\* The requests of the scenarios: /ping with an empty payload, /echo with a
\* text, a text that is not UTF-8, and a route nobody registered.
RequestInputs ==
    <<[route |-> "/ping", payload |-> Bytes_new],
      [route |-> "/echo", payload |-> Bytes_from("hi")]>>

RequestCalls(n, second) ==
    [i \in 1..n |->
        Call("request", IF i = 1 THEN Sender ELSE second,
             RequestInputs[((i - 1) % Len(RequestInputs)) + 1].route,
             RequestInputs[((i - 1) % Len(RequestInputs)) + 1].payload)]

RequestConfigs ==
    [t \in Endpoints |->
        [TransportConfig_default EXCEPT !.ack_timeout = AckTimeoutTicks,
                                        !.max_retransmit = MaxRetransmitCfg]]

\* The server listens and the receive loop of every client runs.  The network
\* is fast and either delivers every datagram or cannot reach the server at all.
\* The caller may drop a request it is waiting for.
Init ==
    /\ NoProviders
    /\ sequence = [t \in Endpoints |-> u32(0)]
    /\ request_timeout = [c \in Clients |-> RequestTimeoutTicks]
    /\ \E unreachable \in {{}, {Server}} :
          Constructed(RequestConfigs, Endpoints, RequestCalls(MaxCancellable, Sender),
                      Network(unreachable, FALSE, FALSE, TRUE, 0, {}))

Next ==
    \/ \E i \in DOMAIN calls : CallTransmit(i)
    \/ \E i \in DOMAIN calls : CallRecord(i)
    \/ \E i \in DOMAIN calls : RequestInsert(i)
    \/ \E i \in DOMAIN calls : RequestTimeout(i)
    \/ \E i \in DOMAIN calls : RequestRemove(i)
    \/ \E i \in DOMAIN calls : RequestCancel(i)
    \/ Tick
    \/ \E t \in Endpoints : SweepScan(t)
    \/ \E t \in Endpoints : SweepEmit(t)
    \/ \E c \in Clients : ClientRecvLoop(c)
    \/ \E c \in Clients : ClientHandle(c)
    \/ ServerListen
    \/ ServerDispatch
    \/ ServerRecord
    \/ ServerHandle

Spec == Init /\ [][Next]_vars

\* Concurrent requests that nobody drops, over a fast network that loses the
\* first copy of every reliable packet and delivers everything else.  The
\* second request comes from the same client or from the other one.
InitRequests ==
    /\ NoProviders
    /\ sequence = [t \in Endpoints |-> u32(0)]
    /\ request_timeout = [c \in Clients |-> RequestTimeoutTicks]
    /\ \E second \in Clients :
          Constructed(RequestConfigs, Endpoints, RequestCalls(MaxRequests, second),
                      Network({}, FALSE, TRUE, TRUE, 0, {}))

NextRequests ==
    \/ \E i \in DOMAIN calls : CallTransmit(i)
    \/ \E i \in DOMAIN calls : CallRecord(i)
    \/ \E i \in DOMAIN calls : RequestInsert(i)
    \/ \E i \in DOMAIN calls : RequestTimeout(i)
    \/ \E i \in DOMAIN calls : RequestRemove(i)
    \/ Tick
    \/ \E t \in Endpoints : SweepScan(t)
    \/ \E t \in Endpoints : SweepEmit(t)
    \/ \E c \in Clients : ClientRecvLoop(c)
    \/ \E c \in Clients : ClientHandle(c)
    \/ ServerListen
    \/ ServerDispatch
    \/ ServerRecord
    \/ ServerHandle

SpecRequests == InitRequests /\ [][NextRequests]_vars

\* ------------------------------------------- the server and remote senders

\* A second remote address that is no endpoint of the model.
Stranger == "stranger"

Flagged(packet, flag) ==
    CASE flag = "encrypted" -> [packet EXCEPT !.flags.encrypted = TRUE]
      [] flag = "compressed" -> [packet EXCEPT !.flags.compressed = TRUE]
      [] flag = "requires_ack" -> [packet EXCEPT !.flags.requires_ack = TRUE]
      [] flag = "no_ack" -> [packet EXCEPT !.flags.requires_ack = FALSE]

\* The packets remote senders put on the wire: requests for a registered
\* route, with a text, with bytes that are not UTF-8, for an unknown route,
\* without requires_ack, encrypted, compressed; and packets of other types,
\* with and without requires_ack.
RemotePackets ==
    {new_data("/ping", Bytes_new, u32(0)),
     new_data("/echo", Bytes_from("hi"), u32(1)),
     new_data("/echo", Bytes_from(BadUtf8), u32(0)),
     new_data("/nope", Bytes_new, U32_MAX),
     Flagged(new_data("/ping", Bytes_new, u32(1)), "no_ack"),
     Flagged(new_data("/echo", encrypt(Bytes_from("hi")).val, u32(1)), "encrypted"),
     Flagged(new_data("/echo", compress(Bytes_from("hi")).val, u32(0)), "compressed"),
     Flagged(new_heartbeat, "requires_ack"),
     new_connect,
     Flagged(new_ack(u32(1)), "requires_ack")}

\* Datagrams that do not deserialize: too short, of another protocol version,
\* with an unknown type byte.
Malformed ==
    {TooSmall,
     [serialize(new_heartbeat) EXCEPT ![1] = PROTOCOL_VERSION + 1],
     [serialize(new_heartbeat) EXCEPT ![2] = 8]}

RemoteDatagrams ==
    {Datagram(serialize(p), Peer) : p \in RemotePackets}
        \cup {Datagram(serialize(new_data("/ping", Bytes_new, u32(0))), Stranger)}
        \cup {Datagram(m, Peer) : m \in Malformed}

\* The server listens, with or without an encryptor and a compressor, after
\* some sends on its transport; MaxRemote datagrams of remote senders arrive,
\* and the server's tasks are faster than one tick.
InitServer ==
    /\ \E provided \in BOOLEAN :
          /\ crypto = [t \in Endpoints |-> t = Server /\ provided]
          /\ compression = [t \in Endpoints |-> t = Server /\ provided]
    /\ sequence = [t \in Endpoints |-> u32(1)]
    /\ request_timeout = [c \in Clients |-> 0]
    /\ Constructed(RequestConfigs, {Server}, <<>>,
                   Network({}, FALSE, FALSE, TRUE, MaxRemote, RemoteDatagrams))

NextServer ==
    \/ Inject(Server)
    \/ ServerListen
    \/ ServerDispatch
    \/ ServerRecord
    \/ ServerHandle
    \/ Tick
    \/ SweepScan(Server)
    \/ SweepEmit(Server)

SpecServer == InitServer /\ [][NextServer]_vars

\* ------------------------------------------------ a client that connects

\* The server listens and the client calls connect, with its receive loop
\* already started (as the example client does) or not.  The network is fast
\* and may lose any datagram.
InitConnect ==
    /\ NoProviders
    /\ sequence = [t \in Endpoints |-> u32(0)]
    /\ request_timeout = [c \in Clients |-> RequestTimeoutTicks]
    /\ \E looping \in {{Server}, {Server, Sender}} :
          Constructed(RequestConfigs, looping, <<>>,
                      Network({}, TRUE, FALSE, TRUE, 0, {}))

NextConnect ==
    \/ ConnectSend(Sender)
    \/ ConnectPoll(Sender)
    \/ ConnectTimeout(Sender)
    \/ Tick
    \/ \E t \in Endpoints : SweepScan(t)
    \/ ClientRecvLoop(Sender)
    \/ ClientHandle(Sender)
    \/ ServerListen
    \/ ServerHandle

SpecConnect == InitConnect /\ [][NextConnect]_vars

\* --------------------------------------------- a client and a peer's Acks

\* The sequences the peer acknowledges: the two the client uses first, and
\* one it has not used.
AckedSeqs == {U32_MAX, u32(0), u32(7)}

\* One client whose receive loop runs sends MaxSends packets to a server that
\* is out of reach, while MaxRemote Acks arrive from the server's address in
\* any order: before the send they name, after it, twice, or for a sequence
\* never sent.  The tasks are faster than one tick.
InitAcks ==
    /\ NoProviders
    /\ sequence = [t \in Endpoints |-> IF t = Sender THEN U32_MAX ELSE u32(0)]
    /\ request_timeout = [c \in Clients |-> 0]
    /\ Constructed(RequestConfigs, {Sender},
                   [i \in 1..MaxSends |-> Call("send", Sender, "/ping", Bytes_new)],
                   Network(Endpoints \ {Sender}, FALSE, FALSE, TRUE, MaxRemote,
                           {Datagram(serialize(new_ack(s)), Server) : s \in AckedSeqs}))

SpecAcks == InitAcks /\ [][NextTransport]_vars

\* --------------------------------------- compression and encryption on the way

\* The client sends "hi" on /echo to the listening server, which answers.
\* Both transports have the same enable flags; each has or lacks an encryptor
\* and a compressor of its own.  The network delivers every datagram and is,
\* with the tasks, faster than one tick.
InitTransforms ==
    /\ \E sender, receiver \in [crypto : BOOLEAN, compression : BOOLEAN] :
          /\ crypto = [t \in Endpoints |->
                          (t = Sender /\ sender.crypto) \/ (t = Server /\ receiver.crypto)]
          /\ compression = [t \in Endpoints |->
                               \/ (t = Sender /\ sender.compression)
                               \/ (t = Server /\ receiver.compression)]
    /\ sequence = [t \in Endpoints |-> u32(0)]
    /\ request_timeout = [c \in Clients |-> 0]
    /\ \E enable_compression, enable_encryption \in BOOLEAN :
          Constructed([t \in Endpoints |->
                          [RequestConfigs[t] EXCEPT
                              !.enable_compression = enable_compression,
                              !.enable_encryption = enable_encryption]],
                      {Sender, Server},
                      <<Call("send", Sender, "/echo", Bytes_from("hi"))>>,
                      Network(Clients \ {Sender}, FALSE, FALSE, TRUE, 0, {}))

SpecTransforms == InitTransforms /\ [][NextFirstLost]_vars

\* ---------------------------------------------------------------- claim C3

SeqsInUse == {U32_MAX, u32(0), u32(1), u32(2)}

Untouched(t, s) == s \notin handled[t].acked \cup handled[t].nacked

Queued(t, s) == Cardinality({r \in retx[t].to_retransmit : r.packet.sequence = s})

\* C3 (state part): for a sequence sent by send_reliable for which no Ack and no
\* Nack was processed, the copies transmitted so far are the original plus one
\* per attempt counted (less the one still queued for emission) while the entry
\* is pending, and exactly 1 + max_retransmit once the sweep has removed it.
C3_CopiesCounted ==
    \A s \in DOMAIN copies[Sender] :
        Untouched(Sender, s) =>
            IF s \in DOMAIN pending_acks[Sender]
            THEN /\ copies[Sender][s] + Queued(Sender, s) = 1 + pending_acks[Sender][s].attempts
                 /\ pending_acks[Sender][s].attempts <= config[Sender].max_retransmit
            ELSE IF s \in handled[Sender].evicted
            THEN /\ copies[Sender][s] = 1 + config[Sender].max_retransmit
                 /\ Queued(Sender, s) = 0
            ELSE copies[Sender][s] = 1

\* C3: with the retransmission task running and no Ack or Nack processed for a
\* sequence, the sender transmits exactly 1 + max_retransmit copies of the packet
\* and then removes its pending entry; no copy is sent afterwards.
C3_ExactlyMaxRetransmitCopies ==
    /\ []C3_CopiesCounted
    /\ \A s \in SeqsInUse :
          (s \in DOMAIN pending_acks[Sender] /\ Untouched(Sender, s))
              ~> (\/ ~Untouched(Sender, s)
                  \/ /\ s \in handled[Sender].evicted
                     /\ s \notin DOMAIN pending_acks[Sender]
                     /\ copies[Sender][s] = 1 + config[Sender].max_retransmit)

C3_Witness ==
    \E s \in DOMAIN copies[Sender] :
        /\ Untouched(Sender, s)
        /\ s \in handled[Sender].evicted
        /\ s \notin DOMAIN pending_acks[Sender]
        /\ config[Sender].max_retransmit >= 1
        /\ copies[Sender][s] = 1 + config[Sender].max_retransmit

\* ---------------------------------------------------------------- claim C4

\* The peer of each of the two endpoints.
Other(t) == IF t = Sender THEN Server ELSE Sender

\* C4 (state part): no entry is removed by retry exhaustion, and an entry that
\* handle_ack removed had been transmitted twice (the lost original and one
\* retransmission) and had reached the receiver.
C4_AckedAfterOneRetransmission ==
    \A t \in {Sender, Server} :
        /\ handled[t].evicted = {}
        /\ \A s \in handled[t].ack_removed :
              /\ copies[t][s] = 2
              /\ s \in handled[t].acked
              /\ <<t, s>> \in handled[Other(t)].received

C5_PendingEventuallyDestroyed ==
    \A s \in SeqsInUse :
        (s \in DOMAIN pending_acks[Sender]) ~> (s \notin DOMAIN pending_acks[Sender])


\* ---------------------------------------------------------------- claim C2

\* What the handler registered for the route of call i answers to its payload.
Answer(i) == ReplyData(calls[i].packet[1], calls[i].client)

Delivered(i) ==
    calls[i].op = "request" /\ calls[i].pc = "done" /\ calls[i].result = "Ok"

\* C2: a client with several requests outstanding at once gets, for each of
\* them, the payload the server produced for that very request: a call that
\* returns a payload returns the answer to its own route and payload, never
\* the answer to another outstanding request.
C2_ResponseOfOwnRequest ==
    \A i \in DOMAIN calls : Delivered(i) => calls[i].response = Answer(i)

\* ---------------------------------------------------------------- claim C6

Returned(i) == calls[i].op = "request" /\ calls[i].pc = "done"

StillWaiting(i) == calls[i].op = "request" /\ calls[i].pc \in {"waiting", "expired"}

\* C6: once a Client.request call has returned, with a payload or with
\* Timeout, the pending-request table of its client holds no slot under its
\* sequence; and every slot in a table belongs to a request call that is
\* still waiting.
C6_SlotsOnlyWhileWaiting ==
    /\ \A i \in DOMAIN calls :
          Returned(i) => calls[i].sequence \notin DOMAIN pending_requests[calls[i].client]
    /\ \A c \in Clients : \A s \in DOMAIN pending_requests[c] :
          StillWaiting(pending_requests[c][s])

\* The first half of C6 alone.
C6_ReturnedHoldsNoSlot ==
    \A i \in DOMAIN calls :
        Returned(i) => calls[i].sequence \notin DOMAIN pending_requests[calls[i].client]

\* ---------------------------------------------------------------- claim C7

\* C7: when the caller cancels a Client.request call that is waiting, the
\* slot of that call is removed from the pending-request table.
C7_CancelRemovesSlot ==
    \A i \in DOMAIN calls :
        calls[i].pc = "cancelled" =>
            \A s \in DOMAIN pending_requests[calls[i].client] :
                pending_requests[calls[i].client][s] # i

\* ---------------------------------------------------------------- claim C1

\* C1: every reply the server sends in response to a received Data packet
\* carries the sequence number of the request packet that caused it.
C1_ReplyCarriesRequestSequence ==
    \A r \in replies : r.packet.sequence = r.request.sequence

\* ---------------------------------------------------------------- claim C8

\* What recv must transmit for the packet p it returns, received from addr.
AckDue(p, addr) ==
    IF p.packet_type = "Data" /\ p.flags.requires_ack
    THEN <<[packet |-> [version |-> PROTOCOL_VERSION, packet_type |-> "Ack",
                        flags |-> PacketFlags_default, sequence |-> p.sequence,
                        timestamp |-> current_timestamp,
                        route |-> "", payload |-> Bytes_new],
            dest |-> addr]>>
    ELSE <<>>

\* C8: for every datagram recv deserializes and transforms successfully, recv
\* transmits exactly one Ack with the received sequence to the sender's address
\* when the packet is Data with requires_ack set, and no Ack when the packet
\* is of another type or has requires_ack clear.
C8_OneAckPerAckedData ==
    \A t \in Endpoints : \A e \in recv_log[t] :
        e.ok => e.acks = AckDue(e.returned[1], e.addr)

\* recv has returned a Data packet that requires an Ack, after decrypting it,
\* and a packet of another type with requires_ack set.
C8_Witness ==
    /\ \E e \in recv_log[Server] :
          /\ e.ok /\ e.returned[1].packet_type = "Data"
          /\ e.returned[1].flags.requires_ack /\ e.returned[1].flags.encrypted
          /\ Len(e.acks) = 1
    /\ \E e \in recv_log[Server] :
          /\ e.ok /\ e.returned[1].packet_type # "Data"
          /\ e.returned[1].flags.requires_ack

\* ---------------------------------------------------------------- claim C9

\* The reply data the server owes to a Data packet on the routes of the example
\* server.
ReplyDue(request) ==
    CASE request.route = "/ping" -> <<"pong">>
      [] request.route = "/echo" /\ request.payload = <<BadUtf8>> ->
            <<"Error: Other error: UTF-8 error">>
      [] request.route = "/echo" /\ request.payload # <<BadUtf8>> -> request.payload
      [] OTHER -> <<"Route not found: " \o request.route>>

\* C9: for every Data packet the server dispatches it performs exactly one
\* send_reliable, to the sender's address and on the packet's route, with the
\* handler's response data, or "Error: <message>" when the handler fails, or
\* "Route not found: <route>" when no handler is registered.
C9_OneReplyPerDispatch ==
    /\ Cardinality(replies) = handled[Server].dispatched
    /\ Cardinality(DOMAIN copies[Server]) = handled[Server].dispatched
    /\ \A r \in replies :
          /\ r.dest = r.remote_addr
          /\ r.route = r.request.route
          /\ r.data = ReplyDue(r.request)
          /\ r.packet.packet_type = "Data" /\ r.packet.route = r.request.route

\* The server has answered a request whose handler failed and a request for
\* an unknown route, and has recorded both replies as pending.
C9_Witness ==
    /\ \E r \in replies : r.data = <<"Error: Other error: UTF-8 error">>
    /\ \E r \in replies : r.data = <<"Route not found: /nope">>
    /\ handled[Server].dispatched = 2
    /\ tasks[Server] = EmptyBag

\* --------------------------------------------------------------- claim C10

\* C10: Client.connect returns success when the server's ConnectAck reaches
\* the client's socket within 5 s of the Connect being sent, and returns
\* Timeout only when none does, also with start_recv_loop already running.
C10_TimeoutOnlyWithoutConnectAck ==
    \A c \in Clients :
        conn[c].pc = "done" => (conn[c].result = "Ok" <=> conn[c].reached)

\* --------------------------------------------------------------- claim C11

\* C11: handle_ack(seq) removes the pending entry keyed by seq if there is one
\* and changes nothing otherwise; every entry with another sequence stays as it
\* was; and a second call with the same seq leaves the table of the first.
C11_HandleAckRemovesOnlyItsEntry ==
    \A t \in Endpoints : \A seq \in AckedSeqs :
        LET before == pending_acks[t]
            after == handle_ack(before, seq)
        IN  /\ DOMAIN after = DOMAIN before \ {seq}
            /\ \A s \in DOMAIN after : after[s] = before[s]
            /\ seq \notin DOMAIN before => after = before
            /\ handle_ack(after, seq) = after
            /\ handled[t].ack_removed \subseteq handled[t].acked

\* handle_ack has removed the entry of one sequence while the entry of another
\* stayed pending, and has been called for a sequence with no entry.
C11_Witness ==
    /\ handled[Sender].ack_removed # {}
    /\ handled[Sender].acked \ handled[Sender].ack_removed # {}
    /\ DOMAIN pending_acks[Sender] \ handled[Sender].acked # {}

\* --------------------------------------------------------------- claim C12

\* x + n modulo 2^32, on the two halves of a u32.
PlusU32(x, n) == <<(x[1] + ((x[2] + n) \div U16)) % U16, (x[2] + n) % U16>>

Allocated(i) == calls[i].pc # "idle"

\* C12: the sequence numbers successive and concurrent send_reliable calls on
\* one transport obtain increase by one modulo 2^32 in allocation order, so no
\* two of them are equal; the counter is past the last one handed out; and the
\* pending table holds each packet under its own sequence, one entry each.
C12_SequencesIncreaseModulo ==
    /\ \A i, j \in DOMAIN calls :
          (i < j /\ Allocated(i) /\ Allocated(j) /\ calls[i].client = calls[j].client) =>
              /\ calls[j].sequence = PlusU32(calls[i].sequence, j - i)
              /\ calls[j].sequence # calls[i].sequence
    /\ \A i \in DOMAIN calls :
          (Allocated(i) /\ \A j \in DOMAIN calls : j > i => ~Allocated(j)) =>
              sequence[calls[i].client] = PlusU32(calls[i].sequence, 1)
    /\ \A t \in Endpoints : \A s \in DOMAIN pending_acks[t] :
          pending_acks[t][s].packet.sequence = s

\* Two send_reliable calls are part-way at once, neither has recorded its
\* entry yet: the first holds the last value of the counter and the second
\* the value after the wrap.
C12_Witness ==
    /\ calls[1].pc = "sent" /\ calls[1].sequence = U32_MAX
    /\ calls[2].pc = "sent" /\ calls[2].sequence = u32(0)
    /\ sequence[Sender] = u32(1)

\* ---------------------------------------------------- C13: flags on the wire

\* The Data packet call i handed to socket.send_to.
Transmitted(i) == calls[i].pc # "idle"

Wire(i) == calls[i].packet[1]

\* C13: once enable_encryption (enable_compression) is set in the transport
\* configuration, every Data packet send_reliable transmits carries the
\* encrypted (compressed) flag and a payload other than the one it was given,
\* whether or not a provider was installed.
C13_EnabledFlagTransformsPayload ==
    \A i \in DOMAIN calls :
        Transmitted(i) =>
            LET cfg == config[calls[i].client]
            IN  /\ cfg.enable_encryption =>
                      Wire(i).flags.encrypted /\ Wire(i).payload # calls[i].payload
                /\ cfg.enable_compression =>
                      Wire(i).flags.compressed /\ Wire(i).payload # calls[i].payload

\* ------------------------------------------ C14: the payload's round trip

\* Both providers are installed on both ends of the Sender-Server path.
ProvidersInstalled ==
    \A t \in {Sender, Server} : crypto[t] /\ compression[t]

\* What recv on t made of the Data packets that came from the address from.
ReceivedData(t, from) ==
    {e \in recv_log[t] :
        /\ e.addr = from
        /\ deserialize(e.data).ok
        /\ deserialize(e.data).val.packet_type = "Data"}

\* The payload the caller of send_reliable on the address from passed for the
\* Data packet with this sequence number.
Passed(from, seq) ==
    IF from = Sender
    THEN {calls[i].payload : i \in {k \in DOMAIN calls :
                                       Transmitted(k) /\ calls[k].sequence = seq}}
    ELSE {r.data : r \in {x \in replies : x.packet.sequence = seq}}

\* C14: with the crypto and compression providers installed on both transports,
\* recv returns the payload that was passed to send_reliable whatever the two
\* enable flags are, in both directions; on the wire the payload is compressed
\* first and encrypted second.
C14_PayloadSurvivesTransforms ==
    ProvidersInstalled =>
        /\ \A t \in {Sender, Server} : \A from \in {Sender, Server} \ {t} :
              \A e \in ReceivedData(t, from) :
                  /\ e.ok
                  /\ Passed(from, e.returned[1].sequence) = {e.returned[1].payload}
        /\ \A i \in DOMAIN calls :
              Transmitted(i) =>
                  LET cfg == config[calls[i].client]
                      z == IF cfg.enable_compression
                           THEN compress(calls[i].payload).val ELSE calls[i].payload
                  IN  Wire(i).payload =
                          IF cfg.enable_encryption THEN encrypt(z).val ELSE z

C14_Witness ==
    /\ ProvidersInstalled
    /\ \E e \in ReceivedData(Server, Sender) :
          /\ deserialize(e.data).val.flags.encrypted
          /\ deserialize(e.data).val.flags.compressed
          /\ e.ok
          /\ e.returned[1].payload = calls[1].payload
    /\ \E e \in ReceivedData(Sender, Server) :
          /\ deserialize(e.data).val.flags.encrypted
          /\ deserialize(e.data).val.flags.compressed
          /\ e.ok

\* --------------------------------------------- C15: a provider is missing

\* What recv on t made of the datagrams that parsed as packets.
Parsed(t) == {e \in recv_log[t] : deserialize(e.data).ok}

Flags(e) == deserialize(e.data).val.flags

NothingReturned(e) == ~e.ok /\ e.returned = <<>>

\* The decryption step of recv on t fails for this datagram.
DecryptionFails(t, e) ==
    Flags(e).encrypted /\ (~crypto[t] \/ ~decrypt(deserialize(e.data).val.payload).ok)

\* C15 as stated: recv of a packet with the encrypted flag on a transport
\* without a crypto provider fails with an Encryption error, recv of a packet
\* with the compressed flag on a transport without a compression provider fails
\* with a Compression error, and neither returns a packet.
C15_MissingProviderError ==
    \A t \in Endpoints : \A e \in Parsed(t) :
        /\ Flags(e).encrypted /\ ~crypto[t] =>
              NothingReturned(e) /\ e.err = "Encryption"
        /\ Flags(e).compressed /\ ~compression[t] =>
              NothingReturned(e) /\ e.err = "Compression"

\* C15 amended: as above, except that a packet with both flags whose decryption
\* step fails is rejected there, with an Encryption error, before the missing
\* compression provider is looked at.
C15_MissingProviderErrorInStepOrder ==
    \A t \in Endpoints : \A e \in Parsed(t) :
        /\ Flags(e).encrypted /\ ~crypto[t] =>
              NothingReturned(e) /\ e.err = "Encryption"
        /\ Flags(e).compressed /\ ~compression[t] =>
              /\ NothingReturned(e)
              /\ e.err = IF DecryptionFails(t, e) THEN "Encryption" ELSE "Compression"

C15_Witness ==
    /\ crypto[Server] /\ ~compression[Server]
    /\ \E e \in Parsed(Server) :
          /\ Flags(e).encrypted /\ Flags(e).compressed
          /\ NothingReturned(e)
          /\ e.err = "Compression"
    /\ tasks[Server] = EmptyBag

\* ------------------------------------------- C16: errors in the receive loops

\* The endpoints whose receive loop runs: the server and one client.
Loopers == {Server, Sender}

\* What arrives at the loops: datagrams recv rejects (too short, of another
\* version, encrypted or compressed for a transport without providers) and
\* datagrams it accepts (a request, an Ack).
Rejected ==
    {Datagram(TooSmall, Peer),
     Datagram([serialize(new_heartbeat) EXCEPT ![1] = PROTOCOL_VERSION + 1], Peer),
     Datagram(serialize(Flagged(new_data("/echo", encrypt(Bytes_from("hi")).val, u32(1)),
                                "encrypted")), Peer),
     Datagram(serialize(Flagged(new_data("/echo", compress(Bytes_from("hi")).val, u32(0)),
                                "compressed")), Peer)}

Accepted ==
    {Datagram(serialize(new_data("/ping", Bytes_new, u32(0))), Peer),
     Datagram(serialize(new_ack(u32(1))), Peer)}

InitLoops ==
    /\ NoProviders
    /\ sequence = [t \in Endpoints |-> u32(1)]
    /\ request_timeout = [c \in Clients |-> 0]
    /\ Constructed(RequestConfigs, Loopers, <<>>,
                   Network({}, FALSE, FALSE, TRUE, MaxRemote, Rejected \cup Accepted))

NextLoops ==
    \/ \E t \in Loopers : Inject(t)
    \/ ServerListen
    \/ ServerDispatch
    \/ ServerRecord
    \/ ServerHandle
    \/ ClientRecvLoop(Sender)
    \/ ClientHandle(Sender)
    \/ Tick
    \/ \E t \in Loopers : SweepScan(t)
    \/ \E t \in Loopers : SweepEmit(t)

\* Each loop and each spawned task is scheduled by the runtime.
FairLoops ==
    /\ FairServer
    /\ WF_vars(ClientRecvLoop(Sender))
    /\ WF_vars(ClientHandle(Sender))

SpecLoops == InitLoops /\ [][NextLoops]_vars /\ FairLoops

\* The tables of the endpoints.
Tables == <<sequence, pending_acks, pending_requests, routes, tasks, retx, calls, conn>>

\* This step is an iteration of t's loop in which recv failed on datagram d.
FailedRecv(t, d) ==
    /\ BagIn(d, socket[t])
    /\ ~recv(t, d).ok
    /\ socket'[t] = socket[t] (-) SetToBag({d})

\* C16: an iteration of the loop of Server.listen or Client.start_recv_loop in
\* which recv fails (framing, version, decryption, decompression) takes the
\* datagram off the socket and changes nothing else: no table changes, nothing
\* is sent, and the loop goes on, so that whatever is at a socket, before or
\* after the failure, is received and its task, if any, has run: again and
\* again the sockets and the task sets are empty.
C16_RecvErrorDropsOneDatagram ==
    /\ [][\A t \in Loopers : \A d \in Rejected \cup Accepted :
              FailedRecv(t, d) =>
                  /\ UNCHANGED Tables
                  /\ socket' = Take(socket, t, d)
                  /\ recv_loop'[t]]_vars
    /\ []<>(\A t \in Loopers : socket[t] = EmptyBag /\ tasks[t] = EmptyBag)

\* The server's loop has rejected a datagram and accepted another, whose task has
\* answered; both loops run and nothing is left to receive.
C16_Witness ==
    /\ \E e \in recv_log[Server] : ~e.ok
    /\ \E e \in recv_log[Server] : e.ok /\ e.returned[1].packet_type = "Data"
    /\ handled[Server].dispatched > 0
    /\ \A t \in Loopers :
          socket[t] = EmptyBag /\ tasks[t] = EmptyBag /\ recv_loop[t]

\* -------------------------------------------------- C17: orphan Data packets

\* Data packets that reach the client while its request to a server it cannot
\* reach is outstanding or over: one under the request's sequence number and
\* two under sequence numbers the client has no slot for.
StrayData ==
    {Datagram(serialize(new_data("/echo", Bytes_from("late"), s)), Peer) :
        s \in {u32(0), u32(1), U32_MAX}}

InitOrphans ==
    /\ NoProviders
    /\ sequence = [t \in Endpoints |-> u32(0)]
    /\ request_timeout = [c \in Clients |-> RequestTimeoutTicks]
    /\ Constructed(RequestConfigs, {Sender}, RequestCalls(1, Sender),
                   Network(Endpoints \ {Sender}, FALSE, FALSE, TRUE, MaxRemote, StrayData))

NextOrphans ==
    \/ \E i \in DOMAIN calls : CallTransmit(i)
    \/ \E i \in DOMAIN calls : CallRecord(i)
    \/ \E i \in DOMAIN calls : RequestInsert(i)
    \/ \E i \in DOMAIN calls : RequestTimeout(i)
    \/ \E i \in DOMAIN calls : RequestRemove(i)
    \/ \E i \in DOMAIN calls : RequestCancel(i)
    \/ Inject(Sender)
    \/ ClientRecvLoop(Sender)
    \/ ClientHandle(Sender)
    \/ Tick
    \/ SweepScan(Sender)
    \/ SweepEmit(Sender)

SpecOrphans == InitOrphans /\ [][NextOrphans]_vars

\* This step is handle_packet of client c on a Data packet under whose sequence
\* number the client has no slot.
HandlesOrphan(c, task) ==
    /\ BagIn(task, tasks[c])
    /\ task.packet.packet_type = "Data"
    /\ task.packet.sequence \notin DOMAIN pending_requests[c]
    /\ tasks'[c] = tasks[c] (-) SetToBag({task})

\* C17: when the client's handle_packet gets a Data packet and no slot exists
\* under its sequence number, the packet is dropped: no call receives a
\* response or changes at all, and the pending-request table stays as it was.
C17_OrphanDataDiscarded ==
    [][\A c \in Clients : \A task \in BagToSet(tasks[c]) :
          HandlesOrphan(c, task) =>
              /\ pending_requests' = pending_requests
              /\ calls' = calls]_vars

\* The request waits in its slot, and a Data packet under another sequence
\* number has been received and handled.
C17_Witness ==
    /\ calls[1].pc = "waiting"
    /\ calls[1].sequence \in DOMAIN pending_requests[Sender]
    /\ \E e \in recv_log[Sender] :
          /\ e.ok
          /\ e.returned[1].packet_type = "Data"
          /\ e.returned[1].sequence # calls[1].sequence
    /\ socket[Sender] = EmptyBag
    /\ tasks[Sender] = EmptyBag

\* ------------------------------------------------------- C18: Client.send

\* This step belongs to call i.
Advances(i) == calls'[i] # calls[i]

\* C18: Client.send hands one Data packet with requires_ack to the socket
\* under the next sequence number, records that packet as the pending entry
\* of that sequence number, returns Ok with the same sequence number, and
\* never touches the pending-request table: no slot ever belongs to a send.
C18_SendLeavesNoSlot ==
    /\ [][\A i \in DOMAIN calls :
              LET c == calls[i].client
                  seq == sequence[c]
              IN  calls[i].op = "send" /\ Advances(i) =>
                      /\ pending_requests' = pending_requests
                      /\ calls[i].pc = "idle" =>
                            /\ calls'[i].pc = "sent"
                            /\ calls'[i].sequence = seq
                            /\ calls'[i].packet[1] =
                                  [new_data(calls[i].route, calls[i].payload, seq)
                                      EXCEPT !.flags.requires_ack = TRUE]
                            /\ copies'[c][seq] =
                                  IF seq \in DOMAIN copies[c] THEN copies[c][seq] + 1 ELSE 1
                            /\ \A s \in DOMAIN copies[c] \ {seq} :
                                  copies'[c][s] = copies[c][s]
                            /\ pending_acks' = pending_acks
                      /\ calls[i].pc = "sent" =>
                            /\ calls'[i].pc = "done"
                            /\ calls'[i].result = "Ok"
                            /\ calls'[i].sequence = calls[i].sequence
                            /\ DOMAIN pending_acks'[c] =
                                  DOMAIN pending_acks[c] \cup {calls[i].sequence}
                            /\ pending_acks'[c][calls[i].sequence] =
                                  PendingPacket(calls[i].packet[1], Server)
                            /\ \A s \in DOMAIN pending_acks[c] \ {calls[i].sequence} :
                                  pending_acks'[c][s] = pending_acks[c][s]
                            /\ socket' = socket /\ copies' = copies
                      /\ calls[i].pc \in {"idle", "sent"}]_vars
    /\ [](\A c \in Clients : \A s \in DOMAIN pending_requests[c] :
              calls[pending_requests[c][s]].op = "request")

\* A send has returned, its entry is pending, and no slot exists.
C18_Witness ==
    \E i \in DOMAIN calls :
        /\ calls[i].op = "send"
        /\ calls[i].pc = "done"
        /\ calls[i].result = "Ok"
        /\ calls[i].sequence \in DOMAIN pending_acks[Sender]
        /\ copies[Sender][calls[i].sequence] = 1
        /\ pending_requests[Sender] = EmptyMap

\* ------------------------------- C19: the default timers and a dead server

\* Client::new: request_timeout is 5 s.
DEFAULT_REQUEST_TIMEOUT_MS == 5000

\* A client with the default configuration, its receive loop and its
\* retransmission task running, makes one request to a server no datagram
\* reaches.  The tasks are faster than one tick.
InitDefault ==
    /\ NoProviders
    /\ sequence = [t \in Endpoints |-> u32(0)]
    /\ request_timeout = [c \in Clients |-> DEFAULT_REQUEST_TIMEOUT_MS \div SWEEP_PERIOD_MS]
    /\ \E input \in {RequestInputs[k] : k \in DOMAIN RequestInputs} :
          Constructed([t \in Endpoints |-> TransportConfig_default], {Sender},
                      <<Call("request", Sender, input.route, input.payload)>>,
                      Network(Endpoints \ {Sender}, FALSE, FALSE, TRUE, 0, {}))

NextDefault ==
    \/ \E i \in DOMAIN calls : CallTransmit(i)
    \/ \E i \in DOMAIN calls : CallRecord(i)
    \/ \E i \in DOMAIN calls : RequestInsert(i)
    \/ \E i \in DOMAIN calls : RequestTimeout(i)
    \/ \E i \in DOMAIN calls : RequestRemove(i)
    \/ Tick
    \/ SweepScan(Sender)
    \/ SweepEmit(Sender)

\* Time passes, the retransmission task runs, and a call that has started
\* runs on to its return.
FairDefault ==
    /\ WF_vars(Tick)
    /\ WF_vars(SweepScan(Sender))
    /\ WF_vars(SweepEmit(Sender))
    /\ WF_vars(\E i \in DOMAIN calls : CallRecord(i))
    /\ WF_vars(\E i \in DOMAIN calls : RequestInsert(i))
    /\ WF_vars(\E i \in DOMAIN calls : RequestTimeout(i))
    /\ WF_vars(\E i \in DOMAIN calls : RequestRemove(i))

SpecDefault == InitDefault /\ [][NextDefault]_vars /\ FairDefault

\* The deadline of request i has been reached.
DeadlineElapsed(i) ==
    \/ calls[i].pc = "waiting" /\ calls[i].left = 0
    \/ calls[i].pc \in {"expired", "done"}

EvictedEntry(i) ==
    /\ calls[i].sequence \in handled[calls[i].client].evicted
    /\ calls[i].sequence \notin DOMAIN pending_acks[calls[i].client]

\* C19: with ack_timeout 1000 ms, max_retransmit 3, a sweep every 100 ms and
\* request_timeout 5000 ms, a request to an unreachable server has lost its
\* pending entry to the sweep by the time its deadline is reached, never at
\* the deadline or after it, and the call, once made, returns Timeout.
C19_EvictedBeforeRequestTimeout ==
    /\ [](\A i \in DOMAIN calls : DeadlineElapsed(i) => EvictedEntry(i))
    /\ [](\A i \in DOMAIN calls : calls[i].pc = "done" => calls[i].result = "Timeout")
    /\ \A i \in {1} :
          (calls[i].pc # "idle") ~> (calls[i].pc = "done" /\ calls[i].result = "Timeout")

\* The entry is gone after the original and three retransmissions while the
\* request still has time left.
C19_Witness ==
    /\ calls[1].pc = "waiting"
    /\ calls[1].left > 0
    /\ EvictedEntry(1)
    /\ copies[Sender][calls[1].sequence] = 1 + MAX_RETRANSMIT_ATTEMPTS

\* ------------------------------------ C20: serialize and deserialize a packet

\* The packets put through the codec: every type and every combination of the
\* flags, sequence numbers and timestamps at both ends of their ranges, routes
\* up to and just beyond the 65535 bytes a u16 counts, and payloads that are
\* empty, short, transformed, of 2^16 bytes and more, and of 2^32 bytes and
\* more (a Bytes of a 64-bit build can be that long).
CodecPayloads ==
    {Bytes_new, Bytes_from("hi"), encrypt(compress(Bytes_from("hi")).val).val,
     <<Block64K>>, <<"hi", Block64K>>, <<Block4G>>, <<"hi", Block4G>>}

CodecPackets ==
    [version : {PROTOCOL_VERSION},
     packet_type : {PacketTypes[k] : k \in DOMAIN PacketTypes},
     flags : [encrypted : BOOLEAN, compressed : BOOLEAN, requires_ack : BOOLEAN],
     sequence : {u32(0), U32_MAX},
     timestamp : {current_timestamp, U64_MAX},
     route : {"", "/echo", LongRoute, TooLongRoute},
     payload : CodecPayloads]

InitCodec ==
    /\ NoProviders
    /\ sequence = [t \in Endpoints |-> u32(0)]
    /\ request_timeout = [c \in Clients |-> 0]
    /\ \E p \in CodecPackets :
          ConstructedWith([t \in Endpoints |-> TransportConfig_default], {}, <<>>,
                          Network({}, FALSE, FALSE, TRUE, 0, {}),
                          [NoPacket EXCEPT !.pc = "packet", !.packet = p])

\* Packet::serialize on the packet.
Serialize ==
    /\ codec.pc = "packet"
    /\ codec' = [codec EXCEPT !.pc = "bytes", !.bytes = serialize(codec.packet)]
    /\ UNCHANGED <<queue, sequence, pending_acks, config, crypto, compression, socket, retx,
                   tasks, routes, pending_requests, request_timeout, recv_loop, calls,
                   conn, env, copies, handled, replies, recv_log>>

\* Packet::deserialize on the bytes serialize produced.
Deserialize ==
    /\ codec.pc = "bytes"
    /\ codec' = [codec EXCEPT !.pc = "parsed", !.result = deserialize(codec.bytes)]
    /\ UNCHANGED <<queue, sequence, pending_acks, config, crypto, compression, socket, retx,
                   tasks, routes, pending_requests, request_timeout, recv_loop, calls,
                   conn, env, copies, handled, replies, recv_log>>

NextCodec ==
    \/ Serialize
    \/ Deserialize

SpecCodec == InitCodec /\ [][NextCodec]_vars

\* The packet is one the round-trip law speaks of: version 1, a known type,
\* a route of at most 65535 bytes.
RouteFits(p) == ~usize_lt(usize(U16 - 1), str_len(p.route))

PayloadFits(p) == usize_lt(Bytes_len(p.payload), <<U16, 0>>)

\* deserialize(serialize(p)) is Ok and equal to p in every field.
RoundTrips ==
    /\ codec.result.ok
    /\ \A f \in {"version", "packet_type", "flags", "sequence", "timestamp", "route",
                 "payload"} :
          codec.result.val[f] = codec.packet[f]

\* C20 as stated: for every packet with version 1, a known type, any flags,
\* a route of at most 65535 bytes and any payload, deserialize(serialize(p))
\* succeeds and equals p in version, type, flags, sequence, timestamp, route
\* and payload.
C20_RoundTripAnyPayload ==
    codec.pc = "parsed" /\ RouteFits(codec.packet) => RoundTrips

\* C20 amended: the same for every payload of fewer than 2^32 bytes.
C20_RoundTripPayloadBelow4GiB ==
    codec.pc = "parsed" /\ RouteFits(codec.packet) /\ PayloadFits(codec.packet) =>
        RoundTrips

\* All three flags, the longest route and a payload of more than 2^16 bytes
\* have made the round trip.
C20_Witness ==
    /\ codec.pc = "parsed"
    /\ codec.packet.flags = [encrypted |-> TRUE, compressed |-> TRUE, requires_ack |-> TRUE]
    /\ codec.packet.route = LongRoute
    /\ codec.packet.payload = <<"hi", Block64K>>
    /\ codec.packet.timestamp = U64_MAX
    /\ RoundTrips

\* ------------------------------- C21, C22: inputs that deserialize must reject

\* The packets whose serializations are tampered with: two types, no flag and
\* every flag, routes that are empty, short and of 65535 bytes, payloads that
\* are empty, short and of more than 2^16 bytes.
RejectPackets ==
    [version : {PROTOCOL_VERSION},
     packet_type : {"Data", "Batch"},
     flags : {PacketFlags_default,
              [encrypted |-> TRUE, compressed |-> TRUE, requires_ack |-> TRUE]},
     sequence : {U32_MAX},
     timestamp : {current_timestamp},
     route : {"", "/echo", LongRoute},
     payload : {Bytes_new, Bytes_from("hi"), <<"hi", Block64K>>}]

\* Version bytes other than 1, type bytes outside 0..7, and reserved flag
\* bits (bits 3..7).
OtherVersions == {0, 2, 255}
UnknownTypes == {8, 255}
ReservedBits == {8, 128, 248}

\* The numbers of bytes cut from the end of a datagram: around every field
\* boundary of its variable part, down to 20 and 19 bytes left, and all.
CutPoints(data) ==
    LET P == Bytes_len(data[9])
        PR == usize_add(P, str_len(data[7]))
    IN  {k \in {usize(1), usize(4), usize(5),
                P, usize_add(P, usize(1)), usize_add(P, usize(3)),
                usize_add(P, usize(4)), usize_add(P, usize(5)),
                usize_add(PR, usize(1)), usize_add(PR, usize(2)),
                usize_add(PR, usize(4)), usize_add(PR, usize(5)),
                usize_add(PR, usize(21))} : k # usize(0)}

\* The first bytes of data: all but the last k.
prefix(data, k) == data \o <<k>>

InitReject ==
    /\ NoProviders
    /\ sequence = [t \in Endpoints |-> u32(0)]
    /\ request_timeout = [c \in Clients |-> 0]
    /\ \E p \in RejectPackets :
          ConstructedWith([t \in Endpoints |-> TransportConfig_default], {}, <<>>,
                          Network({}, FALSE, FALSE, TRUE, 0, {}),
                          [NoPacket EXCEPT !.pc = "packet", !.packet = p])

\* The input of deserialize has another version byte than serialize wrote.
SetVersion ==
    /\ codec.pc = "bytes"
    /\ codec.bytes[1] = PROTOCOL_VERSION
    /\ \E v \in OtherVersions : codec' = [codec EXCEPT !.bytes[1] = v]
    /\ UNCHANGED <<queue, sequence, pending_acks, config, crypto, compression, socket, retx,
                   tasks, routes, pending_requests, request_timeout, recv_loop, calls,
                   conn, env, copies, handled, replies, recv_log>>

\* The input of deserialize has a type byte that no PacketType has.
SetType ==
    /\ codec.pc = "bytes"
    /\ codec.bytes[2] \in 0..7
    /\ \E b \in UnknownTypes : codec' = [codec EXCEPT !.bytes[2] = b]
    /\ UNCHANGED <<queue, sequence, pending_acks, config, crypto, compression, socket, retx,
                   tasks, routes, pending_requests, request_timeout, recv_loop, calls,
                   conn, env, copies, handled, replies, recv_log>>

\* The input of deserialize has reserved bits set in its flags byte.
SetFlags ==
    /\ codec.pc = "bytes"
    /\ codec.bytes[3] \in 0..7
    /\ \E r \in ReservedBits : codec' = [codec EXCEPT !.bytes[3] = @ + r]
    /\ UNCHANGED <<queue, sequence, pending_acks, config, crypto, compression, socket, retx,
                   tasks, routes, pending_requests, request_timeout, recv_loop, calls,
                   conn, env, copies, handled, replies, recv_log>>

\* The input of deserialize is a proper prefix of the bytes.
Truncate ==
    /\ codec.pc = "bytes"
    /\ missing(codec.bytes) = usize(0)
    /\ \E k \in CutPoints(codec.bytes) : codec' = [codec EXCEPT !.bytes = prefix(@, k)]
    /\ UNCHANGED <<queue, sequence, pending_acks, config, crypto, compression, socket, retx,
                   tasks, routes, pending_requests, request_timeout, recv_loop, calls,
                   conn, env, copies, handled, replies, recv_log>>

NextReject ==
    \/ Serialize
    \/ SetVersion
    \/ SetType
    \/ SetFlags
    \/ Truncate
    \/ Deserialize

SpecReject == InitReject /\ [][NextReject]_vars

\* deserialize has returned this error.
Rejected_with(e) == codec.pc = "parsed" /\ ~codec.result.ok /\ codec.result.err = e

Whole == missing(codec.bytes) = usize(0)

\* The input is well formed but for its version byte.
OnlyVersionDiffers ==
    /\ codec.bytes[1] # PROTOCOL_VERSION
    /\ codec.bytes[2] \in 0..7
    /\ codec.bytes[3] \in 0..7
    /\ Whole

\* The input is a valid serialization less its last k >= 1 bytes.
ProperPrefix ==
    /\ ~Whole
    /\ SubSeq(codec.bytes, 1, 9) = serialize(codec.packet)

\* C21 as stated: deserialize fails with VersionMismatch on every otherwise
\* well-formed input whose version byte is not 1, with InvalidPacket on every
\* input whose type byte is outside 0..7, and with InvalidPacket on every
\* proper prefix of a valid serialization.
C21_RejectsVersionTypeTruncation ==
    codec.pc = "parsed" =>
        /\ OnlyVersionDiffers => Rejected_with("VersionMismatch")
        /\ codec.bytes[2] \notin 0..7 => Rejected_with("InvalidPacket")
        /\ ProperPrefix => Rejected_with("InvalidPacket")

\* C21 amended: the unknown type byte yields InvalidPacket on every input
\* whose version byte is 1.
C21_RejectsTypeUnderVersion1 ==
    codec.pc = "parsed" =>
        /\ OnlyVersionDiffers => Rejected_with("VersionMismatch")
        /\ codec.bytes[1] = PROTOCOL_VERSION /\ codec.bytes[2] \notin 0..7 =>
              Rejected_with("InvalidPacket")
        /\ ProperPrefix => Rejected_with("InvalidPacket")

\* A datagram cut down to exactly 20 bytes, which passes the size check, has
\* been rejected.
C21_Witness ==
    /\ Rejected_with("InvalidPacket")
    /\ ProperPrefix
    /\ remaining(codec.bytes) = usize(20)
    /\ codec.packet.route = "/echo"

\* C22: deserialize rejects with InvalidPacket every input whose flags byte
\* has any of the reserved bits 3..7 set; only the flag bytes 0..7 are
\* accepted.
C22_ReservedFlagBitsRejected ==
    codec.pc = "parsed" /\ codec.bytes[3] \notin 0..7 => Rejected_with("InvalidPacket")

\* --------------------------------------- C23: the length fields serialize writes

\* The route_len and payload_len fields of the bytes count the route bytes and
\* the payload bytes that follow them.
LengthsAgree(data) ==
    /\ usize(data[6]) = str_len(data[7])
    /\ data[8] = Bytes_len(data[9])

\* C23: serialize either fails or writes length fields that equal the actual
\* byte counts of route and payload; for a route longer than 65535 bytes it
\* returns an error instead of bytes whose route_len disagrees with the route
\* that follows it.  (serialize returns Ok on every packet, so the bytes are
\* there to be looked at whenever it has run.)
C23_LengthFieldsCountTheBytes ==
    codec.pc = "bytes" => LengthsAgree(codec.bytes)

\* ------------------------- the packets the library puts on the wire (C24, C27)

\* The packets a remote peer sends that are neither Data nor Ack nor Nack:
\* one of each type, and a Connect and a Heartbeat that ask for an Ack.
ControlPackets ==
    {new_heartbeat, new_connect, ConnectAck,
     [new_heartbeat EXCEPT !.packet_type = "Disconnect"],
     [new_heartbeat EXCEPT !.packet_type = "Batch"],
     Flagged(new_heartbeat, "requires_ack"),
     Flagged(new_connect, "requires_ack")}

\* The server listens and MaxRemote control packets of a remote peer arrive.
\* Nothing is lost, and what the server sends to the peer is kept in the
\* peer's socket.
InitAnswers ==
    /\ NoProviders
    /\ sequence = [t \in Endpoints |-> u32(1)]
    /\ request_timeout = [c \in Clients |-> 0]
    /\ ConstructedOn(RequestConfigs, {Server}, <<>>,
                     Network({}, FALSE, FALSE, TRUE, MaxRemote,
                             {Datagram(serialize(p), Peer) : p \in ControlPackets}),
                     NoPacket, Endpoints \cup {Peer})

NextAnswers ==
    \/ Inject(Server)
    \/ ServerListen
    \/ ServerHandle

SpecAnswers == InitAnswers /\ [][NextAnswers]_vars

\* The server listens and one client, whose receive loop runs, connects, while
\* MaxRemote datagrams of a remote peer arrive at the server: Heartbeats and
\* requests.  Nothing is lost, and what the server sends to the peer is kept
\* in the peer's socket.
InitWire ==
    /\ NoProviders
    /\ sequence = [t \in Endpoints |-> u32(0)]
    /\ request_timeout = [c \in Clients |-> RequestTimeoutTicks]
    /\ ConstructedOn(RequestConfigs, {Server, Sender}, <<>>,
                     Network({}, FALSE, FALSE, TRUE, MaxRemote,
                             {Datagram(serialize(p), Peer) :
                                 p \in {new_heartbeat,
                                        new_data("/echo", Bytes_from("hi"), u32(1))}}),
                     NoPacket, Endpoints \cup {Peer})

NextWire ==
    \/ Inject(Server)
    \/ ConnectSend(Sender)
    \/ ConnectPoll(Sender)
    \/ ConnectTimeout(Sender)
    \/ Tick
    \/ \E t \in {Server, Sender} : SweepScan(t)
    \/ SweepEmit(Server)
    \/ ClientRecvLoop(Sender)
    \/ ClientHandle(Sender)
    \/ ServerListen
    \/ ServerDispatch
    \/ ServerRecord
    \/ ServerHandle

SpecWire == InitWire /\ [][NextWire]_vars

\* ------------------------------------------- C24: what non-Data packets carry

\* The datagrams in flight that an endpoint of the library transmitted.
InFlight ==
    UNION {{d \in BagToSet(socket[a]) : d.addr \in Endpoints} : a \in DOMAIN socket}

\* On the wire: unless the type byte is Data, route_len is 0, no route bytes
\* follow, and bit 2 (requires_ack) of the flags byte is clear.
PlainUnlessData(data) ==
    data[2] # TypeByte("Data") =>
        /\ data[6] = 0
        /\ data[7] = ""
        /\ (data[3] \div 4) % 2 = 0

\* C24: every packet the transport, the server or the client constructs and
\* transmits has an empty route unless its type is Data, and has requires_ack
\* set only if it is Data (an Ack, Heartbeat, Connect or ConnectAck never asks
\* for an acknowledgment).
C24_RouteAndAckOnlyOnData ==
    \A d \in InFlight : PlainUnlessData(d.data)

\* The server's Heartbeat is with the peer and its ConnectAck, the answer to
\* the client's Connect, with the client.
C24_Witness ==
    /\ Datagram(serialize(new_heartbeat), Server) \in BagToSet(socket[Peer])
    /\ Datagram(serialize(ConnectAck), Server) \in BagToSet(socket[Sender])
    /\ conn[Sender].pc = "polling"

\* --------------------------- C27: what the server does with control packets

\* This step is Server.handle_packet on the task, from start to return.
HandlesTask(task) ==
    /\ task \in BagToSet(tasks[Server])
    /\ tasks' = [tasks EXCEPT ![Server] = @ (-) SetToBag({task})]

\* This step puts exactly one datagram on the wire: a packet of the type ty
\* with empty route and payload, from the server to dest.
SendsOne(ty, dest) ==
    \E d \in BagToSet(socket'[dest]) :
        /\ socket' = [socket EXCEPT ![dest] = @ (+) SetToBag({d})]
        /\ d.addr = Server
        /\ deserialize(d.data).ok
        /\ deserialize(d.data).val.packet_type = ty
        /\ deserialize(d.data).val.version = PROTOCOL_VERSION
        /\ deserialize(d.data).val.route = ""
        /\ deserialize(d.data).val.payload = Bytes_new

\* C27: handling a Connect makes the server send exactly one ConnectAck, and
\* handling a Heartbeat exactly one Heartbeat, both by raw send to the sender's
\* address: no sequence number is consumed and no pending-ACK entry is
\* created.  Handling a Disconnect, ConnectAck or Batch packet transmits
\* nothing and changes no state.
C27_ControlPacketAnswers ==
    [][\A task \in BagToSet(tasks[Server]) :
          HandlesTask(task) =>
              /\ UNCHANGED <<sequence, pending_acks>>
              /\ task.packet.packet_type = "Connect" =>
                    SendsOne("ConnectAck", task.remote_addr)
              /\ task.packet.packet_type = "Heartbeat" =>
                    SendsOne("Heartbeat", task.remote_addr)
              /\ task.packet.packet_type \in {"Disconnect", "ConnectAck", "Batch"} =>
                    UNCHANGED <<socket, config, crypto, compression, retx, routes,
                                pending_requests, request_timeout, recv_loop>>]_vars

\* The server has answered a Connect and a Heartbeat of the peer: one
\* ConnectAck and one Heartbeat are with the peer, and the server's sequence
\* counter and pending table are as they were.
C27_Witness ==
    /\ socket[Peer] = SetToBag({Datagram(serialize(ConnectAck), Server),
                                Datagram(serialize(new_heartbeat), Server)})
    /\ tasks[Server] = EmptyBag
    /\ sequence[Server] = u32(1)
    /\ pending_acks[Server] = EmptyMap

\* ----------------------------------- C25: a handler that never returns

BlockedRoute == "/block"

\* The server listens.  Its owner registers a handler that never returns for
\* /block and afterwards one more route, at any moment; MaxRemote requests of
\* a remote peer arrive, for /block and for /echo.
InitBlocked ==
    /\ NoProviders
    /\ sequence = [t \in Endpoints |-> u32(0)]
    /\ request_timeout = [c \in Clients |-> 0]
    /\ Constructed(RequestConfigs, {Server},
                   <<On(BlockedRoute, Never), On("/late", "/ping")>>,
                   Network({}, FALSE, FALSE, TRUE, MaxRemote,
                           {Datagram(serialize(new_data(r, Bytes_from("hi"), u32(1))), Peer) :
                               r \in {BlockedRoute, "/echo"}}))

NextBlocked ==
    \/ \E i \in DOMAIN calls : OnRequest(i)
    \/ \E i \in DOMAIN calls : OnInsert(i)
    \/ Inject(Server)
    \/ ServerListen
    \/ ServerDispatch
    \/ ServerBlock
    \/ ServerRecord

\* The runtime runs every task that can run, and grants the write lock once
\* it is free.
FairBlocked ==
    /\ WF_vars(ServerListen)
    /\ WF_vars(ServerDispatch)
    /\ WF_vars(ServerBlock)
    /\ WF_vars(ServerRecord)
    /\ \A i \in {1, 2} : WF_vars(OnInsert(i))

SpecBlocked == InitBlocked /\ [][NextBlocked]_vars /\ FairBlocked

\* A request for another route than the blocked one waits to be dispatched.
OtherRouteWaits ==
    \E task \in BagToSet(tasks[Server]) :
        task.pc = "start" /\ task.packet.route # BlockedRoute

\* C25: a handler that never returns delays only its own reply; while it is
\* blocked, Data packets for other routes are still dispatched and answered,
\* also when a route registration is requested while the handler is blocked:
\* no request for another route waits for ever.
C25_OtherRoutesProceed == []<>(~OtherRouteWaits)

\* ------------------------------------- C26: duplicates of a request (no Ack)

\* The server listens and one client sends one packet for /echo.  Every
\* datagram to the client is lost, the server's Acks among them, so the client
\* retransmits until it gives up, and every copy reaches the server.
InitDuplicates ==
    /\ NoProviders
    /\ sequence = [t \in Endpoints |-> u32(0)]
    /\ request_timeout = [c \in Clients |-> 0]
    /\ \E cfg \in Configs :
          Constructed([t \in Endpoints |-> cfg], {Server, Sender},
                      <<Call("send", Sender, "/echo", Bytes_from("hi"))>>,
                      Network(Clients, FALSE, FALSE, TRUE, 0, {}))

NextDuplicates ==
    \/ \E i \in DOMAIN calls : CallTransmit(i)
    \/ \E i \in DOMAIN calls : CallRecord(i)
    \/ Tick
    \/ \E t \in {Sender, Server} : SweepScan(t)
    \/ \E t \in {Sender, Server} : SweepEmit(t)
    \/ ServerListen
    \/ ServerDispatch
    \/ ServerRecord

SpecDuplicates == InitDuplicates /\ [][NextDuplicates]_vars

\* The copies of the client's packet that have reached the server so far.
Arrived == IF u32(0) \in DOMAIN copies[Sender] THEN copies[Sender][u32(0)] ELSE 0

\* The copies that the server has not dispatched yet: in its socket, or in a
\* task that has not started.
Undispatched ==
    BagCardinality(socket[Server])
        + BagCardinality([task \in {x \in BagToSet(tasks[Server]) : x.pc = "start"} |->
                             tasks[Server][task]])

\* C26: the server does not de-duplicate.  When a client's Data packet is
\* retransmitted because its Ack was lost, every copy that reaches the server
\* invokes the route's handler once and produces its own reliable reply: n
\* copies cause n handler invocations and n replies, each under a sequence
\* number of its own and each asking for an Ack.
C26_EveryCopyIsHandled ==
    /\ Arrived = Undispatched + handled[Server].dispatched
    /\ Cardinality(replies) = handled[Server].dispatched
    /\ Cardinality({r.packet.sequence : r \in replies}) = handled[Server].dispatched
    /\ \A r \in replies :
          /\ r.request.sequence = u32(0)
          /\ r.packet.packet_type = "Data"
          /\ r.packet.flags.requires_ack
          /\ r.data = Bytes_from("hi")

\* The original and a retransmission have both been handled and answered.
C26_Witness ==
    /\ Arrived = 2
    /\ Undispatched = 0
    /\ handled[Server].dispatched = 2
    /\ Cardinality(replies) = 2

\* ------------------------------------- C28: get_job while workers run a job

\* A JobQueue as in test_job_queue: two workers, a handler for "test_job",
\* jobs enqueued before and after `start`, and get_job calls at any moment.
InitJobs ==
    /\ NoProviders
    /\ sequence = [t \in Endpoints |-> u32(0)]
    /\ request_timeout = [c \in Clients |-> 0]
    /\ Constructed([t \in Endpoints |-> TransportConfig_default], {}, <<>>,
                   Network({}, FALSE, FALSE, TRUE, 0, {}))

NextJobs ==
    \/ New
    \/ Register("test_job")
    \/ \E name \in JobNames, cfg \in JobConfigs : Enqueue(name, cfg)
    \/ \E name \in JobNames : Schedule(name, RetryDelayTicks)
    \/ Start
    \/ JobClock
    \/ RunScheduler
    \/ \E w \in Workers : WorkerTake(w)
    \/ \E w \in Workers : WorkerInsert(w)
    \/ \E w \in Workers : WorkerProcess(w)
    \/ \E w \in Workers : WorkerRemove(w)
    \/ \E w \in Workers : WorkerRetry(w)
    \/ \E w \in Workers : WorkerStore(w)
    \/ \E w \in Workers : WorkerStop(w)
    \/ \E job_id \in 1..MaxJobs : GetJob(job_id)
    \/ GetJobProcessing
    \/ GetJobCompleted
    \/ GetJobPending
    \/ Shutdown
    \/ ClearCompleted

SpecJobs == InitJobs /\ [][NextJobs]_vars

\* A get_job call has returned.
Looked == queue.pc # "none" /\ queue.lookup.pc = "done"

\* C28: a get_job call made with an id that enqueue has returned, and that
\* returns before clear_completed is called, returns the job with that id.
C28_GetJobFindsEnqueuedJob ==
    (Looked /\ ~queue.cleared) =>
        /\ queue.lookup.result.some
        /\ queue.lookup.result.val.id = queue.lookup.job_id

\* ------------------------------------------- C29: what handle_nack changes

\* This step is Client.handle_packet of the sender on the task.
SenderHandles(task) ==
    /\ task \in BagToSet(tasks[Sender])
    /\ tasks' = [tasks EXCEPT ![Sender] = @ (-) SetToBag({task})]

\* The pending table of the sender after the step is the table before it with
\* one more attempt and a new last-sent instant in the entry of seq.
OneMoreAttempt(seq) ==
    /\ DOMAIN pending_acks'[Sender] = DOMAIN pending_acks[Sender]
    /\ pending_acks'[Sender][seq].attempts = pending_acks[Sender][seq].attempts + 1
    /\ pending_acks'[Sender][seq].age = 0
    /\ pending_acks'[Sender][seq].packet = pending_acks[Sender][seq].packet
    /\ pending_acks'[Sender][seq].dest = pending_acks[Sender][seq].dest
    /\ \A s \in DOMAIN pending_acks[Sender] \ {seq} :
          pending_acks'[Sender][s] = pending_acks[Sender][s]

\* C29: handling a Nack for a sequence with a pending entry increments that
\* entry's attempt counter by one and resets its last-sent instant, transmits
\* nothing and leaves every other entry as it was; handling a Nack for a
\* sequence with no pending entry leaves the pending table as it was.
C29_NackTouchesOneEntry ==
    [][\A task \in BagToSet(tasks[Sender]) :
          (SenderHandles(task) /\ task.packet.packet_type = "Nack") =>
              /\ socket' = socket
              /\ copies' = copies
              /\ IF task.packet.sequence \in DOMAIN pending_acks[Sender]
                    THEN OneMoreAttempt(task.packet.sequence)
                 ELSE pending_acks' = pending_acks]_vars

\* The same below the end of the u8 range of the attempt counter.
C29_BelowTheRange ==
    [][\A task \in BagToSet(tasks[Sender]) :
          (SenderHandles(task) /\ task.packet.packet_type = "Nack") =>
              /\ socket' = socket
              /\ copies' = copies
              /\ IF task.packet.sequence \in DOMAIN pending_acks[Sender]
                    THEN Overflows(pending_acks[Sender], task.packet.sequence)
                         \/ OneMoreAttempt(task.packet.sequence)
                 ELSE pending_acks' = pending_acks]_vars

\* ------------------------------------ C30: the sweep that follows a Nack

\* One client with the default configuration sends one reliable packet to a
\* server out of reach, and MaxRemote Nack packets for its sequence arrive
\* from the server's address at any moment.  The tasks are faster than one
\* tick.
InitNacked ==
    /\ NoProviders
    /\ sequence = [t \in Endpoints |-> u32(0)]
    /\ request_timeout = [c \in Clients |-> 0]
    /\ Constructed([t \in Endpoints |-> TransportConfig_default], {Sender},
                   <<Call("send", Sender, "/ping", Bytes_new)>>,
                   Network(Endpoints \ {Sender}, FALSE, FALSE, TRUE, MaxRemote,
                           {Datagram(serialize([new_ack(u32(0)) EXCEPT
                                                   !.packet_type = "Nack"]), Server)}))

SpecNacked == InitNacked /\ [][NextTransport]_vars

\* This step is the locked part of one sweep of the sender's retransmission
\* task.
SenderSweeps == retx[Sender].due /\ ~retx'[Sender].due

\* C30: the first sweep after handle_nack has changed a pending entry queues
\* that entry's packet for retransmission, if the entry is still pending and
\* its retry budget is not used up.
C30_SweepReemitsAfterNack ==
    [][\A s \in handled[Sender].renewed \cap DOMAIN pending_acks[Sender] :
          (SenderSweeps /\ ~Exhausted(Sender, pending_acks[Sender][s])) =>
              \E r \in retx'[Sender].to_retransmit : r.packet.sequence = s]_vars

\* ------------------------------------------ C31: one sweep, entry by entry

\* This step is the locked part of one sweep of t's retransmission task.
Sweeps(t) == retx[t].due /\ ~retx'[t].due

\* What the sweep has queued for re-emission under the sequence s.
QueuedFor(t, s) == {r \in retx'[t].to_retransmit : r.packet.sequence = s}

\* The sweep treats the entry of s as its age and its attempts demand.
SweptAsItShould(t, s) ==
    LET e == pending_acks[t][s]
    IN  IF e.age <= config[t].ack_timeout
            THEN /\ s \in DOMAIN pending_acks'[t]
                 /\ pending_acks'[t][s] = e
                 /\ QueuedFor(t, s) = {}
        ELSE IF e.attempts >= config[t].max_retransmit
            THEN /\ s \notin DOMAIN pending_acks'[t]
                 /\ QueuedFor(t, s) = {}
        ELSE /\ s \in DOMAIN pending_acks'[t]
             /\ pending_acks'[t][s].attempts = e.attempts + 1
             /\ pending_acks'[t][s].age = 0
             /\ pending_acks'[t][s].packet = e.packet
             /\ pending_acks'[t][s].dest = e.dest
             /\ QueuedFor(t, s) = {[packet |-> e.packet, dest |-> e.dest]}

\* This step takes r from what the sweep of t has queued and transmits it
\* once, to r.dest.
EmitsOnce(t, r) ==
    /\ retx'[t].to_retransmit = retx[t].to_retransmit \ {r}
    /\ copies'[t][r.packet.sequence] = Min(copies[t][r.packet.sequence] + 1, CopiesCap)
    /\ \A s \in DOMAIN copies[t] \ {r.packet.sequence} : copies'[t][s] = copies[t][s]
    /\ socket' = IF r.dest \in env.unreachable THEN socket
                 ELSE [socket EXCEPT ![r.dest] =
                          @ (+) SetToBag({Datagram(serialize(r.packet), t)})]
    /\ pending_acks' = pending_acks

\* C31: one sweep leaves an entry that has not expired as it is and does not
\* transmit it, removes an expired entry whose attempts have reached
\* max_retransmit without transmitting it, and gives every other expired entry
\* one more attempt and a new last-sent instant and transmits its packet
\* exactly once to its recorded destination; it queues and transmits nothing
\* else.
C31_SweepTreatsEachEntry ==
    [][\A t \in {Sender, Server} :
          /\ Sweeps(t) =>
                /\ \A s \in DOMAIN pending_acks[t] : SweptAsItShould(t, s)
                /\ DOMAIN pending_acks'[t] \subseteq DOMAIN pending_acks[t]
                /\ \A r \in retx'[t].to_retransmit :
                      r.packet.sequence \in DOMAIN pending_acks[t]
          /\ (~Sweeps(t) /\ retx'[t].to_retransmit # retx[t].to_retransmit) =>
                \E r \in retx[t].to_retransmit : EmitsOnce(t, r)]_vars

\* The sweeps of the client have retransmitted its packet once and then removed
\* its entry; the sweeps of the server have removed one reply and
\* retransmitted another, whose entry is pending with a new last-sent instant.
C31_Witness ==
    /\ u32(0) \in handled[Sender].evicted
    /\ copies[Sender][u32(0)] = 2
    /\ handled[Server].evicted # {}
    /\ \E s \in DOMAIN pending_acks[Server] :
          /\ pending_acks[Server][s].attempts = 1
          /\ pending_acks[Server][s].age = 0
          /\ copies[Server][s] = 2

\* ------------------------------------- C32: the copies the sweep transmits

\* One client sends two packets to a server whose socket nobody reads, so
\* that every copy stays there to be looked at; no Ack ever comes.  The client
\* has or lacks each provider and each enable flag, and the clock of the
\* timestamps runs.
InitResend ==
    /\ \E sender \in [crypto : BOOLEAN, compression : BOOLEAN] :
          /\ crypto = [t \in Endpoints |-> t = Sender /\ sender.crypto]
          /\ compression = [t \in Endpoints |-> t = Sender /\ sender.compression]
    /\ sequence = [t \in Endpoints |-> u32(0)]
    /\ request_timeout = [c \in Clients |-> 0]
    /\ \E cfg \in Configs, enable_compression, enable_encryption \in BOOLEAN :
          Constructed([t \in Endpoints |->
                          [cfg EXCEPT !.enable_compression = enable_compression,
                                      !.enable_encryption = enable_encryption]],
                      {Sender},
                      <<Call("send", Sender, "/echo", Bytes_from("hi")),
                        Call("send", Sender, "/ping", Bytes_new)>>,
                      [Network({}, FALSE, FALSE, FALSE, 0, {}) EXCEPT !.clock = TRUE])

SpecResend == InitResend /\ [][NextNoAck]_vars

\* The datagrams at the server's socket that carry the sequence s.
CopiesAtServer(s) ==
    {d \in BagToSet(socket[Server]) : deserialize(d.data).val.sequence = s}

\* The calls whose send_reliable has transmitted.
SentCalls == {i \in DOMAIN calls : calls[i].pc # "idle"}

\* C32: every copy of a reliable packet that the sweep transmits is the first
\* copy again: the same bytes (sequence, flags, timestamp, route and the
\* payload as compressed and encrypted for the first copy), to the same
\* destination; and the sequence counter counts the send_reliable calls only.
C32_CopiesAreIdentical ==
    /\ \A i \in SentCalls :
          /\ CopiesAtServer(calls[i].sequence) =
                {Datagram(serialize(calls[i].packet[1]), Sender)}
          /\ \A d \in CopiesAtServer(calls[i].sequence) :
                socket[Server][d] = copies[Sender][calls[i].sequence]
    /\ \A d \in BagToSet(socket[Server]) :
          \E i \in SentCalls : d \in CopiesAtServer(calls[i].sequence)
    /\ \A t \in Endpoints \ {Server} : socket[t] = EmptyBag
    /\ sequence[Sender] = u32(Cardinality(SentCalls))

\* A packet that was compressed and encrypted has been retransmitted, ticks
\* after its first copy.
C32_Witness ==
    /\ config[Sender].enable_compression /\ compression[Sender]
    /\ config[Sender].enable_encryption /\ crypto[Sender]
    /\ \E i \in SentCalls :
          /\ copies[Sender][calls[i].sequence] >= 2
          /\ calls[i].packet[1].flags.compressed
          /\ calls[i].packet[1].flags.encrypted
          /\ calls[i].packet[1].timestamp # current_timestamp_at(env.now)

\* ---------------------------------- C33: after handle_ack has seen the Ack

\* C33: once handle_ack has handled the Ack of a sequence, the sender holds no
\* pending entry for that sequence and has no copy of its packet queued for
\* retransmission, whatever the order of send_reliable, the receive loop and
\* the sweep.
C33_AckedStaysAcked ==
    \A s \in handled[Sender].acked :
        /\ s \notin DOMAIN pending_acks[Sender]
        /\ \A r \in retx[Sender].to_retransmit : r.packet.sequence # s

\* ------------------------------- C34: a reply that comes before the slot

\* C34: a request whose reply (a Data packet under its sequence number) the
\* receive loop has handled after the transmission and before the timeout
\* does not end with Timeout: the reply reaches the caller, also when it was
\* handled before request had inserted its slot.
C34_TimelyReplyIsDelivered ==
    \A c \in Clients : \A i \in handled[c].replied :
        calls[i].pc = "done" => calls[i].result = "Ok"

\* ------------------------------- C35: the copies of one packet under Nacks

\* C35: whatever sweeps, Acks and Nacks occur, the sender transmits at most
\* 1 + max_retransmit copies of one reliable packet.
C35_CopiesWithinBudget ==
    \A s \in DOMAIN copies[Sender] :
        copies[Sender][s] <= 1 + config[Sender].max_retransmit

\* ------------------------------- C36: the range of the attempt counter

\* C36: the attempt counter of every pending entry stays within
\* 0..max_retransmit, and no Nack is handled on an entry whose counter is at
\* the end of its 8-bit range, however many Nacks the peer sends.
C36_AttemptsWithinBudget ==
    /\ [](\A t \in Endpoints : \A s \in DOMAIN pending_acks[t] :
             pending_acks[t][s].attempts \in 0..config[t].max_retransmit)
    /\ [][\A task \in BagToSet(tasks[Sender]) :
             (SenderHandles(task) /\ task.packet.packet_type = "Nack") =>
                 ~Overflows(pending_acks[Sender], task.packet.sequence)]_vars

\* ------------------------------- C37: Acks and Nacks from another address

\* An Ack and a Nack for the first sequence number, as they arrive from addr.
Answers(addr) ==
    {Datagram(serialize(new_ack(u32(0))), addr),
     Datagram(serialize([new_ack(u32(0)) EXCEPT !.packet_type = "Nack"]), addr)}

\* One client with the default configuration sends one reliable packet to a
\* server out of reach; MaxRemote Acks and Nacks for its sequence arrive at
\* any moment, from the server's address or from another one.
InitForeign ==
    /\ NoProviders
    /\ sequence = [t \in Endpoints |-> u32(0)]
    /\ request_timeout = [c \in Clients |-> 0]
    /\ Constructed([t \in Endpoints |-> TransportConfig_default], {Sender},
                   <<Call("send", Sender, "/ping", Bytes_new)>>,
                   Network(Endpoints \ {Sender}, FALSE, FALSE, TRUE, MaxRemote,
                           Answers(Server) \cup Answers(Peer)))

SpecForeign == InitForeign /\ [][NextTransport]_vars

\* C37: an Ack or a Nack whose sequence has a pending entry, received from an
\* address other than the destination recorded in that entry, leaves the
\* pending table as it was.
C37_OnlyTheDestinationAnswers ==
    [][\A task \in BagToSet(tasks[Sender]) :
          (/\ SenderHandles(task)
           /\ task.packet.packet_type \in {"Ack", "Nack"}
           /\ task.packet.sequence \in DOMAIN pending_acks[Sender]
           /\ task.remote_addr # pending_acks[Sender][task.packet.sequence].dest)
              => pending_acks'[Sender] = pending_acks[Sender]]_vars

\* ------------------------------- C38: the counter comes round to a sequence in flight

\* The request made under the first sequence number, still waiting.
Earlier ==
    [Call("request", Sender, "/echo", Bytes_from("hi")) EXCEPT
        !.pc = "waiting",
        !.sequence = u32(0),
        !.packet = <<send_reliable_packet(Sender, "/echo", Bytes_from("hi"), u32(0))>>,
        !.left = RequestTimeoutTicks]

\* One client whose sequence counter has gone once round the u32 range: the
\* request it made under sequence 0 is still waiting for its reply and its
\* packet for its Ack (ack_timeout and request_timeout are durations of the
\* application's choice, and every Nack renews the entry), everything sent in
\* between has been acknowledged, and next_sequence hands out 0 again.  The
\* client now makes one more call, a send or a request.
InitWrap ==
    /\ NoProviders
    /\ sequence = [t \in Endpoints |-> u32(0)]
    /\ request_timeout = [c \in Clients |-> RequestTimeoutTicks]
    /\ codec = NoPacket
    /\ \E cfg \in Configs : config = [t \in Endpoints |-> cfg]
    /\ env = Network(Endpoints \ {Sender}, FALSE, FALSE, FALSE, 0, {})
    /\ \E op \in {"send", "request"} :
          calls = <<Earlier, Call(op, Sender, "/ping", Bytes_new)>>
    /\ pending_acks =
          [t \in Endpoints |->
              IF t = Sender THEN u32(0) :> PendingPacket(Earlier.packet[1], Server)
              ELSE EmptyMap]
    /\ pending_requests = [c \in Clients |-> IF c = Sender THEN u32(0) :> 1 ELSE EmptyMap]
    /\ copies = [t \in Endpoints |-> IF t = Sender THEN u32(0) :> 1 ELSE EmptyMap]
    /\ socket = [t \in Endpoints |-> EmptyBag]
    /\ retx = [t \in Endpoints |->
                  [running |-> t = Sender, due |-> FALSE, to_retransmit |-> {}]]
    /\ tasks = [t \in Endpoints |-> EmptyBag]
    /\ routes = [r \in {"/ping", "/echo"} |-> r]
    /\ recv_loop = [t \in Endpoints |-> t = Sender]
    /\ conn = [c \in Clients |->
                  [pc |-> "idle", left |-> 0, result |-> "none", reached |-> FALSE]]
    /\ handled = [t \in Endpoints |-> NoHistory]
    /\ replies = {}
    /\ recv_log = [t \in Endpoints |-> {}]
    /\ queue = NoJobQueue

NextWrap ==
    \/ \E i \in DOMAIN calls : CallTransmit(i)
    \/ \E i \in DOMAIN calls : CallRecord(i)
    \/ \E i \in DOMAIN calls : RequestInsert(i)
    \/ \E i \in DOMAIN calls : RequestClosed(i)
    \/ \E i \in DOMAIN calls : RequestTimeout(i)
    \/ \E i \in DOMAIN calls : RequestRemove(i)
    \/ Tick
    \/ SweepScan(Sender)
    \/ SweepEmit(Sender)

SpecWrap == InitWrap /\ [][NextWrap]_vars

\* C38: the step of send_reliable that records the pending entry leaves every
\* entry that is in the table as it was, and the step of Client.request that
\* inserts the slot leaves every slot another caller is waiting on as it was,
\* also when the counter has handed out a sequence that is still in flight.
C38_NothingInFlightIsReplaced ==
    [][\A i \in DOMAIN calls :
          /\ (calls[i].pc = "sent" /\ calls'[i].pc \in {"recorded", "done"}) =>
                \A s \in DOMAIN pending_acks[calls[i].client] :
                    /\ s \in DOMAIN pending_acks'[calls[i].client]
                    /\ pending_acks'[calls[i].client][s] = pending_acks[calls[i].client][s]
          /\ (calls[i].pc = "recorded" /\ calls'[i].pc = "waiting") =>
                \A s \in DOMAIN pending_requests[calls[i].client] :
                    calls[pending_requests[calls[i].client][s]].pc = "waiting" =>
                        /\ s \in DOMAIN pending_requests'[calls[i].client]
                        /\ pending_requests'[calls[i].client][s]
                              = pending_requests[calls[i].client][s]]_vars

\* ------------------------------- C39: where a job is held

\* The ids of the jobs in the pending heap.
PendingIds == {job.id : job \in queue.pending}

\* C39: every job in the completed history has status Completed or Failed,
\* and no job is in two of the pending heap, the processing map and the
\* completed history at once.
C39_CompletedIsTerminal ==
    queue.pc # "none" =>
        /\ \A id \in DOMAIN queue.completed :
              queue.completed[id].status \in {"Completed", "Failed"}
        /\ PendingIds \cap DOMAIN queue.processing = {}
        /\ PendingIds \cap DOMAIN queue.completed = {}
        /\ DOMAIN queue.processing \cap DOMAIN queue.completed = {}

\* ------------------------------- C40: how often a job is executed

\* The workers that hold the job with this id between taking it from the
\* pending heap and storing it.
Holders(id) ==
    {w \in Workers : queue.workers[w].pc \in {"taken", "inserted", "processed",
                                              "retry", "store"}
                     /\ queue.workers[w].job.id = id}

\* The job with this id has come to rest in the completed history.
Settled(id) ==
    /\ id \in DOMAIN queue.completed
    /\ id \notin PendingIds
    /\ id \notin DOMAIN queue.processing
    /\ Holders(id) = {}

\* C40: with several workers, process_job never runs one job in two workers
\* at once; a job that has come to rest after a run that succeeded at once
\* has been executed exactly once; and a job whose name has no handler comes
\* to rest with status Failed after exactly max_retries executions.
C40_ExecutedAsConfigured ==
    queue.pc = "started" =>
        \A id \in 1..queue.enqueued :
            /\ Cardinality({w \in Workers : queue.workers[w].pc = "inserted"
                                            /\ queue.workers[w].job.id = id}) <= 1
            /\ Settled(id) =>
                  /\ (queue.completed[id].name = "test_job"
                      /\ ~queue.completed[id].error.some) => Executions(id) = 1
                  /\ queue.completed[id].name = "no_handler" =>
                        /\ Executions(id) = queue.completed[id].config.max_retries
                        /\ queue.completed[id].status = "Failed"

====
